---- MODULE Spec2Model ----
(***************************************************************************)
(* A model of the stock-dashboard scrape pipeline: the compound-field      *)
(* splitters and the value parser of scraper.py, the batch loop            *)
(* scrape_multiple, and the upserts of load_data.py / cron_scrape.py on    *)
(* the stocks and stock_history tables.                                    *)
(*                                                                         *)
(* Text is a sequence of one-character strings.  A Python value is a       *)
(* record [t, neg, mant, scale, s]: t is "none", "int", "float" or "str";  *)
(* a number is (-1)^neg * mant / 10^scale, kept normalised (no trailing    *)
(* zero in the fraction), so that two numbers are equal as records exactly *)
(* when Python's == holds between them, up to the int/float tag.  A float  *)
(* is named by the decimal it was read from; x / 100 is named by the exact *)
(* quotient, the last-bit rounding of the binary division (1.1/100) being  *)
(* below the resolution of the model.  Where a rounding is cut off by      *)
(* int(), in int(num * multiplier), the binary float is computed in full.  *)
(*                                                                         *)
(* An operator that needs an intermediate value several times takes it as  *)
(* a parameter of a helper (Strip / StripIdx, _split_52w / Split52At /     *)
(* Split52Cut): the helpers of one function model the same source lines.   *)
(***************************************************************************)
EXTENDS Integers, Sequences, FiniteSets, TLC

VARIABLES
    svLabel,     \* split_multi_value_fields: key of the one-field dict given
    svRaw,       \* ... its raw text value
    svOut,       \* ... the call's outcome: [raised, d]
    cellLabel,   \* scrape_stock on a one-row page: the row's key
    cellFrags,   \* ... the two text fragments of its value cell
    recFrags,    \* ... the result when the cell comes as the fragments
    recJoined,   \* ... the result when it comes as their concatenation
    smTickers,   \* scrape_multiple: the tickers argument
    smI,         \* ... the loop index i of the last turn begun (0: none)
    smPc,        \* ... "idle", "request", "sleep" or "done"
    sm,          \* ... [results, affiliates, outcome, log]
    backend,     \* "sqlite" or "postgres" (USE_POSTGRES)
    stocks,      \* the stocks table of the database in use
    history,     \* the stock_history table
    today,       \* the day of the last run on the database
    runs,        \* the number of runs so far
    op,          \* the last run: "load_data", "migrate", "main", "exit",
                 \* "scrape_all", "cancelled", "no_tickers"
    files,       \* the files the runs wrote, by name
    pvToken,     \* _parse_value: the token given
    pvOut,       \* ... what it returned
    apiKey,      \* a record key on its way to the API
    apiName,     \* ... [col, pg, api]: its column, Postgres name, API name
    exCell,      \* _extract_cell_texts: the value cell given
    exTexts,     \* ... the list it returned
    shortlist,   \* the shortlist as stored: entries [ticker, added_price]
    slResp,      \* ... the last request on it with its response
    slPrev,      \* ... and the request before that one
    cmPc,        \* update_sqlite/update_postgres record by record: "idle",
                 \* "ticker", "stocks", "history", "count" or "done"
    cmI,         \* ... the number of records the loop has taken
    cmTickers,   \* ... how many of them carry a ticker
    cmUpdated,   \* ... the counter updated
    cmExec,      \* ... executed writes so far: [stocks, history]
    cmDurable,   \* ... the writes the last commit made durable
    idDict,      \* split_multi_value_fields run twice: the dict given
    idOut,       \* ... <<the first result, the second result>>
    liteDb       \* the stocks.db migrate reads: [stocks, history]

splitVars == <<svLabel, svRaw, svOut>>

cellVars == <<cellLabel, cellFrags, recFrags, recJoined>>

batchVars == <<smTickers, smI, smPc, sm>>

dbVars == <<backend, stocks, history, today, runs, op, files>>

parseVars == <<pvToken, pvOut>>

apiVars == <<apiKey, apiName>>

extractVars == <<exCell, exTexts>>

slVars == <<shortlist, slResp, slPrev>>

commitVars == <<cmPc, cmI, cmTickers, cmUpdated, cmExec, cmDurable>>

idemVars == <<idDict, idOut>>

migrateVars == <<liteDb>>

restVars == <<slVars, commitVars, idemVars, migrateVars>>

vars == <<splitVars, cellVars, batchVars, dbVars, parseVars, apiVars,
          extractVars, restVars>>

----------------------------------------------------------------------------
(* Bounds and alphabets *)

MaxLen == 5

MaxFragLen == 2

MaxBatch == 3

MaxRuns == 2

Digits == {"0", "1", "2", "3", "4", "5", "6", "7", "8", "9"}

Alphabet == {"5", ".", "-", "%", "(", ")", " "}

StringsUpTo(n) == UNION {[1..k -> Alphabet] : k \in 0..n}

----------------------------------------------------------------------------
(* Python values *)

NoneV == [t |-> "none", neg |-> FALSE, mant |-> 0, scale |-> 0, s |-> <<>>]

StrV(txt) == [t |-> "str", neg |-> FALSE, mant |-> 0, scale |-> 0, s |-> txt]

RECURSIVE Normalise(_, _)
Normalise(m, sc) ==
    IF sc > 0 /\ m % 10 = 0 THEN Normalise(m \div 10, sc - 1) ELSE <<m, sc>>

NumN(tag, neg, n) ==
    [t |-> tag, neg |-> (neg /\ n[1] # 0), mant |-> n[1], scale |-> n[2],
     s |-> <<>>]

NumV(tag, neg, m, sc) == NumN(tag, neg, Normalise(m, sc))

IsNum(v) == v.t \in {"int", "float"}

\* Python's == between two values (5 == 5.0 is True).
PyEq(a, b) ==
    IF IsNum(a) /\ IsNum(b)
    THEN a.neg = b.neg /\ a.mant = b.mant /\ a.scale = b.scale
    ELSE a = b

\* x / 100 on a float
Div100(v) == NumV("float", v.neg, v.mant, v.scale + 2)

----------------------------------------------------------------------------
(* Text helpers *)

IsDigit(c) == c \in Digits

DigitVal(c) ==
    CASE c = "0" -> 0 [] c = "1" -> 1 [] c = "2" -> 2 [] c = "3" -> 3
      [] c = "4" -> 4 [] c = "5" -> 5 [] c = "6" -> 6 [] c = "7" -> 7
      [] c = "8" -> 8 [] c = "9" -> 9

IsSpace(c) == c = " "

IsAmtChar(c) == c \in Digits \/ c = "."

MinOf(S) == CHOOSE i \in S : \A j \in S : i <= j

MaxOf(S) == CHOOSE i \in S : \A j \in S : i >= j

Sub(s, a, b) == IF a > b THEN <<>> ELSE SubSeq(s, a, b)

HasChar(s, c) == \E i \in 1..Len(s) : s[i] = c

StripIdx(s, Idx) ==
    IF Idx = {} THEN <<>> ELSE Sub(s, MinOf(Idx), MaxOf(Idx))

\* str.strip()
Strip(s) == StripIdx(s, {i \in 1..Len(s) : ~IsSpace(s[i])})

\* str.replace(c, '')
Remove(s, c) == SelectSeq(s, LAMBDA x : x # c)

\* length of the run that starts at position p and ends before the first
\* position of Stop
RunStop(s, p, Stop) ==
    IF p > Len(s) THEN 0
    ELSE IF Stop = {} THEN Len(s) - p + 1
    ELSE MinOf(Stop) - p

DigitRun(s, p) == RunStop(s, p, {i \in p..Len(s) : ~IsDigit(s[i])})

SpaceRun(s, p) == RunStop(s, p, {i \in p..Len(s) : ~IsSpace(s[i])})

AmtRun(s, p) == RunStop(s, p, {i \in p..Len(s) : ~IsAmtChar(s[i])})

AllDigits(s) == \A i \in 1..Len(s) : IsDigit(s[i])

RECURSIVE DigitsVal(_)
DigitsVal(s) ==
    IF s = <<>> THEN 0
    ELSE 10 * DigitsVal(Sub(s, 1, Len(s) - 1)) + DigitVal(s[Len(s)])

\* The decimal literals float() accepts among the texts the model builds:
\* surrounding blanks, an optional '-', digits with at most one '.', at
\* least one digit.  (Exponents, '+', inf/nan and '_' need characters that
\* no alphabet of the model holds.)
Unsigned(u) == IF u # <<>> /\ u[1] = "-" THEN Tail(u) ELSE u

IsDecimal(b, d) == d # <<>> /\ AllDigits(d) /\ Len(b) - Len(d) <= 1

IsDecimalBody(b) == IsDecimal(b, Remove(b, "."))

DotScale(b, Dots) == IF Dots = {} THEN 0 ELSE Len(b) - MinOf(Dots)

FloatOfBody(neg, b) ==
    NumV("float", neg, DigitsVal(Remove(b, ".")),
         DotScale(b, {i \in 1..Len(b) : b[i] = "."}))

FloatOf(u) == FloatOfBody(u[1] = "-", Unsigned(u))

\* float(s), for a text float() accepts
PyFloat(s) == FloatOf(Strip(s))

\* try: float(s) / except: -- [ok, v]
FloatTry(u, b) ==
    IF IsDecimalBody(b) THEN [ok |-> TRUE, v |-> FloatOfBody(u[1] = "-", b)]
    ELSE [ok |-> FALSE, v |-> NoneV]

FloatTryStripped(u) == FloatTry(u, Unsigned(u))

TryFloat(s) == FloatTryStripped(Strip(s))

\* try: int(s) / except: -- [ok, v]; int() takes surrounding blanks, an
\* optional '-', digits
IntTry(u, b) ==
    IF b # <<>> /\ AllDigits(b)
    THEN [ok |-> TRUE, v |-> NumV("int", u[1] = "-", DigitsVal(b), 0)]
    ELSE [ok |-> FALSE, v |-> NoneV]

IntTryStripped(u) == IntTry(u, Unsigned(u))

TryInt(s) == IntTryStripped(Strip(s))

----------------------------------------------------------------------------
(* Split helpers of scraper.py.  A splitter's outcome is                   *)
(* [raised, p, s]: the pair (primary, secondary) it returns, or raised     *)
(* when float() throws ValueError inside it.                               *)

Ret(p, s) == [raised |-> FALSE, p |-> p, s |-> s]

Raise == [raised |-> TRUE, p |-> NoneV, s |-> NoneV]

\* full match of  -?\d+\.?\d*%  (the '-' already taken off)
PctTail(u, q) == q + DigitRun(u, q) = Len(u) /\ u[Len(u)] = "%"

PctDigits(u, a) ==
    /\ a >= 1
    /\ PctTail(u, IF a < Len(u) /\ u[a + 1] = "." THEN a + 2 ELSE a + 1)

PctBody(u) == PctDigits(u, DigitRun(u, 1))

IsPctToken(t) == PctBody(Unsigned(t))

HasDecimals(u, M, n) ==
    /\ M + 1 + n <= Len(u)
    /\ u[M + 1] = "."
    /\ \A i \in (M + 2)..(M + 1 + n) : IsDigit(u[i])

MaxOrZero(S) == IF S = {} THEN 0 ELSE MaxOf(S)

\* _RE_52W = ^(\d+(?:\.\d{1,2})?)(-?\d+\.?\d*%)$ : the end of group 1 in the
\* order the backtracking matcher tries it (all M leading digits and two
\* decimals, all digits and one decimal, then the digits alone, fewer and
\* fewer), or 0 when there is no match.
Re52wFrom(u, M) ==
    IF M = 0 THEN 0
    ELSE IF HasDecimals(u, M, 2) /\ IsPctToken(Sub(u, M + 4, Len(u)))
    THEN M + 3
    ELSE IF HasDecimals(u, M, 1) /\ IsPctToken(Sub(u, M + 3, Len(u)))
    THEN M + 2
    ELSE MaxOrZero({k \in 1..M : IsPctToken(Sub(u, k + 1, Len(u)))})

Re52wCut(u) == Re52wFrom(u, DigitRun(u, 1))

Split52Cut(value, u, k) ==
    IF k > 0
    THEN Ret(PyFloat(Sub(u, 1, k)),
             Div100(PyFloat(Remove(Sub(u, k + 1, Len(u)), "%"))))
    ELSE Ret(value, NoneV)

Split52At(value, u) == Split52Cut(value, u, Re52wCut(u))

_split_52w(value) ==
    IF value.t # "str" THEN Ret(value, NoneV)
    ELSE Split52At(value, Strip(value.s))

\* the end of the token of _RE_PCT_TOKEN = -?\d+\.?\d*%|- that starts at
\* position p, or 0 when none starts there: d is where its digits start,
\* a how many there are, e where its '%' must stand
TokEnd(u, p, a, e) ==
    IF a >= 1 /\ e <= Len(u) /\ u[e] = "%" THEN e
    ELSE IF u[p] = "-" THEN p
    ELSE 0

TokFrac(u, p, a, q) == TokEnd(u, p, a, q + DigitRun(u, q))

TokDigits(u, p, d, a) ==
    TokFrac(u, p, a,
            IF d + a <= Len(u) /\ u[d + a] = "." THEN d + a + 1 ELSE d + a)

TokSign(u, p, d) == TokDigits(u, p, d, DigitRun(u, d))

PctTokenEnd(u, p) == TokSign(u, p, IF u[p] = "-" THEN p + 1 ELSE p)

\* _RE_PCT_TOKEN.findall(u), scanning from position p
RECURSIVE FindTokens(_, _)
TokensAfter(u, p, e) ==
    IF e = 0 THEN FindTokens(u, p + 1)
    ELSE <<Sub(u, p, e)>> \o FindTokens(u, e + 1)

FindTokens(u, p) ==
    IF p > Len(u) THEN <<>> ELSE TokensAfter(u, p, PctTokenEnd(u, p))

_to_float_ZeroForDash(p) ==
    IF p = <<"-">> THEN NumV("float", FALSE, 0, 0)
    ELSE Div100(PyFloat(Remove(p, "%")))

_to_float(p) ==
    IF p = <<"-">> THEN NoneV ELSE Div100(PyFloat(Remove(p, "%")))

TwoPctsAtLeastTwo(value, parts) ==
    IF Len(parts) >= 2
    THEN Ret(_to_float(parts[1]), _to_float(parts[2]))
    ELSE Ret(value, NoneV)

TwoPcts(value, parts) ==
    IF Len(parts) = 2
    THEN Ret(_to_float(parts[1]), _to_float(parts[2]))
    ELSE Ret(value, NoneV)

_split_two_pcts(value) ==
    IF value.t # "str" THEN Ret(value, NoneV)
    ELSE TwoPcts(value, FindTokens(Strip(value.s), 1))

\* _RE_DIV_AMT = ^([\d.]+)\s*\(([\d.]+)%\)$ : <<end of group 1, start of
\* group 2, end of group 2>>, or <<0, 0, 0>> when there is no match; a is
\* the length of group 1, o the place of '(', b the length of group 2
DivClose(u, a, o, b) ==
    IF /\ a >= 1
       /\ o <= Len(u) /\ u[o] = "("
       /\ b >= 1
       /\ o + b + 2 = Len(u)
       /\ u[o + b + 1] = "%"
       /\ u[o + b + 2] = ")"
    THEN <<a, o + 1, o + b>>
    ELSE <<0, 0, 0>>

DivOpen(u, a, o) == DivClose(u, a, o, AmtRun(u, o + 1))

DivAmount(u, a) == DivOpen(u, a, a + SpaceRun(u, a + 1) + 1)

ReDivAmtCut(u) == DivAmount(u, AmtRun(u, 1))

\* amount = float(m.group(1)); pct = float(m.group(2)) / 100
DivFloats(amount, pct) ==
    IF amount.ok /\ pct.ok THEN Ret(amount.v, Div100(pct.v)) ELSE Raise

DivSplitCut(value, u, c) ==
    IF c[1] > 0
    THEN DivFloats(TryFloat(Sub(u, 1, c[1])), TryFloat(Sub(u, c[2], c[3])))
    ELSE Ret(value, NoneV)

DivSplitAt(value, u) == DivSplitCut(value, u, ReDivAmtCut(u))

_split_dividend_amt(value) ==
    IF value.t # "str" THEN Ret(value, NoneV)
    ELSE DivSplitAt(value, Strip(value.s))

----------------------------------------------------------------------------
(* MULTI_VALUE_SPLIT_MAP and split_multi_value_fields.  A dict is the      *)
(* sequence of its <<key, value>> items in insertion order.                *)

CompoundLabels ==
    {"52w_high", "52w_low", "eps_past_3_5y", "sales_past_3_5y",
     "dividend_gr._3_5y", "eps_sales_surpr.", "volatility", "dividend_ttm",
     "dividend_est."}

MULTI_VALUE_SPLIT_MAP(k) ==
    CASE k = "52w_high"          -> <<"52w_high", "52w_high_pct", "52w">>
      [] k = "52w_low"           -> <<"52w_low", "52w_low_pct", "52w">>
      [] k = "eps_past_3_5y"     -> <<"eps_past_3y", "eps_past_5y", "two_pcts">>
      [] k = "sales_past_3_5y"   -> <<"sales_past_3y", "sales_past_5y", "two_pcts">>
      [] k = "dividend_gr._3_5y" -> <<"dividend_gr_3y", "dividend_gr_5y", "two_pcts">>
      [] k = "eps_sales_surpr."  -> <<"eps_surprise", "sales_surprise", "two_pcts">>
      [] k = "volatility"        -> <<"volatility_week", "volatility_month", "two_pcts">>
      [] k = "dividend_ttm"      -> <<"dividend_ttm", "dividend_yield", "dividend_amt">>
      [] k = "dividend_est."     -> <<"dividend_est", "dividend_yield_est", "dividend_amt">>

PrimaryKey(label) == MULTI_VALUE_SPLIT_MAP(label)[1]

SecondaryKey(label) == MULTI_VALUE_SPLIT_MAP(label)[2]

Family(label) == MULTI_VALUE_SPLIT_MAP(label)[3]

SplitterOf(family, value) ==
    CASE family = "52w"          -> _split_52w(value)
      [] family = "two_pcts"     -> _split_two_pcts(value)
      [] family = "dividend_amt" -> _split_dividend_amt(value)

Splitter(label, value) == SplitterOf(Family(label), value)

DictKeys(d) == {d[i][1] : i \in 1..Len(d)}

DictHas(d, k) == \E i \in 1..Len(d) : d[i][1] = k

DictGet(d, k) == d[CHOOSE i \in 1..Len(d) : d[i][1] = k][2]

\* d[k] = v : a new key goes last, a key already there keeps its place
DictSet(d, k, v) ==
    IF DictHas(d, k)
    THEN [i \in 1..Len(d) |-> IF d[i][1] = k THEN <<k, v>> ELSE d[i]]
    ELSE Append(d, <<k, v>>)

\* if secondary_val is not None: result[secondary_key] = secondary_val
StoreSecondary(d, key, sv) ==
    IF sv # NoneV THEN DictSet(d, SecondaryKey(key), sv) ELSE d

StoreSplit(d, key, r) ==
    IF r.raised THEN [raised |-> TRUE, d |-> <<>>]
    ELSE [raised |-> FALSE,
          d |-> StoreSecondary(DictSet(d, PrimaryKey(key), r.p), key, r.s)]

\* One turn of the loop of split_multi_value_fields on the item <<key, value>>:
\* acc is [raised, d], the result dict so far.
SplitItem(acc, key, value) ==
    IF acc.raised THEN acc
    ELSE IF key \in CompoundLabels
    THEN StoreSplit(acc.d, key, Splitter(key, value))
    ELSE [raised |-> FALSE, d |-> DictSet(acc.d, key, value)]

RECURSIVE SplitFrom(_, _, _)
SplitFrom(acc, data, i) ==
    IF i > Len(data) THEN acc
    ELSE SplitFrom(SplitItem(acc, data[i][1], data[i][2]), data, i + 1)

\* split_multi_value_fields(data): [raised, d]
split_multi_value_fields(data) ==
    SplitFrom([raised |-> FALSE, d |-> <<>>], data, 1)

----------------------------------------------------------------------------
(* FinvizScraper._parse_value and the field loop of scrape_stock *)

Multiplier(c) ==
    CASE c = "K" -> 1000 [] c = "M" -> 1000000 [] c = "B" -> 1000000000

RECURSIVE Pow10(_)
Pow10(n) == IF n = 0 THEN 1 ELSE 10 * Pow10(n - 1)

(* float(value[:-1]) * multipliers[...] is a product of binary floats, and *)
(* int() cuts what the rounding of the product leaves, so here the float   *)
(* is computed bit by bit.  A binary float is [m, e]: m the bits of its    *)
(* significand, most significant first, e its exponent; it is the number   *)
(* m * 2^e.  The bits are worked on a word at a time.                      *)

\* the bits of the significand of a Python float (sys.float_info.mant_dig)
MANT_DIG == 53

\* the bits of a word
WordBits == 16

RECURSIVE Pow2(_)
Pow2(n) == IF n = 0 THEN 1 ELSE 2 * Pow2(n - 1)

\* the integer v in w bits, most significant first
BitsOfWidth(v, w) == [i \in 1..w |-> (v \div Pow2(w - i)) % 2]

\* the bits of the integer n, without leading zeros
IntBits(n) == BitsOfWidth(n, Cardinality({i \in 0..30 : Pow2(i) <= n}))

RECURSIVE BitsVal(_)
BitsVal(b) ==
    IF Len(b) = 0 THEN 0
    ELSE IF Len(b) = 1 THEN b[1]
    ELSE BitsVal(Sub(b, 1, Len(b) \div 2)) * Pow2(Len(b) - Len(b) \div 2)
             + BitsVal(Sub(b, Len(b) \div 2 + 1, Len(b)))

\* the first n bits of the binary fraction r / D, for 0 <= r < D
RECURSIVE FracBits(_, _, _)
FracBits(r, D, n) ==
    IF n <= WordBits \div 2 THEN BitsOfWidth((r * Pow2(n)) \div D, n)
    ELSE BitsOfWidth((r * Pow2(WordBits \div 2)) \div D, WordBits \div 2)
             \o FracBits((r * Pow2(WordBits \div 2)) % D, D,
                         n - WordBits \div 2)

\* what is left of r / D after its first n bits, times D * 2^n
RECURSIVE FracRem(_, _, _)
FracRem(r, D, n) ==
    IF n <= WordBits \div 2 THEN (r * Pow2(n)) % D
    ELSE FracRem((r * Pow2(WordBits \div 2)) % D, D, n - WordBits \div 2)

\* the zero bits the binary fraction r / D starts with, for 0 < r < D
RECURSIVE LeadZeros(_, _)
LeadZeros(r, D) == IF 2 * r >= D THEN 0 ELSE 1 + LeadZeros(2 * r, D)

\* b + 1: the last zero bit becomes one, the ones after it zero
IncAt(b, Zeros) ==
    IF Zeros = {} THEN <<1>> \o [i \in 1..Len(b) |-> 0]
    ELSE [i \in 1..Len(b) |->
             IF i < MaxOf(Zeros) THEN b[i]
             ELSE IF i = MaxOf(Zeros) THEN 1 ELSE 0]

IncBits(b) == IncAt(b, {i \in 1..Len(b) : b[i] = 0})

\* a significand that the rounding carried into one more bit
Renormalised(m, e) ==
    IF Len(m) > MANT_DIG THEN [m |-> Sub(m, 1, MANT_DIG), e |-> e + 1]
    ELSE [m |-> m, e |-> e]

\* The float nearest to bits * 2^e (plus a fraction of the last bit when
\* sticky), ties to even.
RoundHalfEven(bits, sticky, e) ==
    IF Len(bits) <= MANT_DIG THEN [m |-> bits, e |-> e]
    ELSE Renormalised(
             IF /\ bits[MANT_DIG + 1] = 1
                /\ \/ sticky
                   \/ bits[MANT_DIG] = 1
                   \/ \E i \in (MANT_DIG + 2)..Len(bits) : bits[i] = 1
             THEN IncBits(Sub(bits, 1, MANT_DIG))
             ELSE Sub(bits, 1, MANT_DIG),
             e + Len(bits) - MANT_DIG)

\* the float of q + r / D, q > 0: ib is the bits of q
BinOfMixed(ib, r, D) ==
    RoundHalfEven(ib \o FracBits(r, D, MANT_DIG + 1 - Len(ib)),
                  FracRem(r, D, MANT_DIG + 1 - Len(ib)) # 0,
                  Len(ib) - (MANT_DIG + 1))

\* the float of r / D, 0 < r < D: z is the zero bits it starts with
BinOfFraction(r, D, z) ==
    RoundHalfEven(FracBits(FracRem(r, D, z), D, MANT_DIG + 1),
                  FracRem(r, D, z + MANT_DIG + 1) # 0,
                  0 - (z + MANT_DIG + 1))

\* the float that float() gives for the decimal n / D
BinOfRatio(n, D) ==
    IF n = 0 THEN [m |-> <<>>, e |-> 0]
    ELSE IF n >= D THEN BinOfMixed(IntBits(n \div D), n % D, D)
    ELSE BinOfFraction(n, D, LeadZeros(n, D))

\* the bits of m * 1000: the i highest bits of m are still to do, w of
\* them are done in this turn, carry comes from the bits below
RECURSIVE Times1000From(_, _, _, _)
Times1000From(m, i, w, carry) ==
    IF i = 0 THEN IntBits(carry)
    ELSE Times1000From(
             m, i - w, IF i - w < WordBits THEN i - w ELSE WordBits,
             (BitsVal(Sub(m, i - w + 1, i)) * 1000 + carry) \div Pow2(w))
         \o BitsOfWidth(
                (BitsVal(Sub(m, i - w + 1, i)) * 1000 + carry) % Pow2(w), w)

Times1000(m) ==
    Times1000From(m, Len(m), IF Len(m) < WordBits THEN Len(m) ELSE WordBits, 0)

\* the bits of m * k, for k a power of 1000, as the multipliers are
RECURSIVE BitsTimes(_, _)
BitsTimes(m, k) == IF k = 1 THEN m ELSE BitsTimes(Times1000(m), k \div 1000)

\* num * k
BinTimes(f, k) == RoundHalfEven(BitsTimes(f.m, k), FALSE, f.e)

\* int(f) for a float below 2^MANT_DIG: its integer part
BinTrunc(f) == BitsVal(Sub(f.m, 1, Len(f.m) + f.e))

\* int(num * m): the float product, truncated toward zero
ScaleToInt(num, m) ==
    NumV("int", num.neg,
         BinTrunc(BinTimes(BinOfRatio(num.mant, Pow10(num.scale)), m)), 0)

\* try: return <number> / except: return value
PctOrText(value, f) == IF f.ok THEN Div100(f.v) ELSE StrV(value)

ScaledOrText(value, f) ==
    IF f.ok THEN ScaleToInt(f.v, Multiplier(value[Len(value)]))
    ELSE StrV(value)

\* a parser that gives None for what it cannot read
NoneOnFailure(value, f) == IF f.ok THEN f.v ELSE NoneV

NumOrText(value, f) == IF f.ok THEN f.v ELSE StrV(value)

PlainValue(value, value_clean) ==
    IF HasChar(value_clean, ".")
    THEN NumOrText(value, TryFloat(value_clean))
    ELSE NumOrText(value, TryInt(value_clean))

_parse_value(value) ==
    IF value = <<>> \/ value = <<"-">> THEN NoneV
    ELSE IF HasChar(value, "%")
    THEN PctOrText(value, TryFloat(Remove(value, "%")))
    ELSE IF value[Len(value)] \in {"B", "M", "K"}
    THEN ScaledOrText(value, TryFloat(Sub(value, 1, Len(value) - 1)))
    ELSE PlainValue(value, Remove(value, ","))

\* ' '.join(texts)
RECURSIVE JoinSpace(_)
JoinSpace(texts) ==
    IF Len(texts) = 0 THEN <<>>
    ELSE IF Len(texts) = 1 THEN texts[1]
    ELSE texts[1] \o <<" ">> \o JoinSpace(Tail(texts))

ScalarPair(data, key, value) ==
    IF value # <<>> /\ value # <<"-">>
    THEN DictSet(data, key, _parse_value(value))
    ELSE data

\* One label/value pair of the snapshot table (scraper.py 171-186): texts
\* is what _extract_cell_texts returned for the value cell.
ExtractPair(data, key, texts) ==
    IF texts = <<>> \/ \A i \in 1..Len(texts) : texts[i] = <<"-">>
    THEN data
    ELSE IF key \in CompoundLabels /\ Len(texts) >= 2
    THEN DictSet(DictSet(data, PrimaryKey(key), _parse_value(texts[1])),
                 SecondaryKey(key), _parse_value(texts[2]))
    ELSE IF key \in CompoundLabels /\ Len(texts) = 1
    THEN DictSet(data, key, StrV(texts[1]))
    ELSE ScalarPair(data, key,
                    IF Len(texts) = 1 THEN texts[1] ELSE JoinSpace(texts))

RECURSIVE ExtractFrom(_, _, _)
ExtractFrom(data, table, i) ==
    IF i > Len(table) THEN data
    ELSE ExtractFrom(ExtractPair(data, table[i][1], table[i][2]), table, i + 1)

\* the return value of scrape_stock: a record (a dict), or None; why tells
\* the two ways to None apart (the caller cannot)
Scraped(d) == [ok |-> TRUE, why |-> "record", d |-> d]

NoRecord(why) == [ok |-> FALSE, why |-> why, d |-> <<>>]

AffiliateName == <<"A", "f", "f", "i", "l", "i", "a", "t", "e">>

\* data = split_multi_value_fields(data); return data / except: return None
PostProcessed(r) == IF r.raised THEN NoRecord("exception") ELSE Scraped(r.d)

\* scrape_stock(ticker) on a response page [fails, company, table]: fails
\* stands for an exception raised by the request or by the HTML parser,
\* company for the text of the tab-link element, table for the label/value
\* pairs of the snapshot table as <<key, texts>>.
scrape_stock(ticker, page) ==
    IF page.fails THEN NoRecord("exception")
    ELSE IF page.company = AffiliateName THEN NoRecord("affiliate")
    ELSE PostProcessed(split_multi_value_fields(
             ExtractFrom(<<<<"ticker", StrV(ticker)>>,
                           <<"company_name", StrV(page.company)>>>>,
                         page.table, 1)))

----------------------------------------------------------------------------
(* FinvizScraper.scrape_multiple.  The state of a call is                  *)
(* [results, affiliates, outcome, log]: the two lists it returns and two   *)
(* records of what happened, which the code does not keep: outcome[k] is   *)
(* why the k-th scrape_stock call returned what it did, log is the         *)
(* sequence of requests and sleeps.                                        *)

EmptyBatch ==
    [results |-> <<>>, affiliates |-> <<>>, outcome |-> <<>>, log |-> <<>>]

\* `if data:` -- a dict is true when it is not empty, None is false
DataTruthy(data) == data.ok /\ data.d # <<>>

\* a scrape_multiple that puts the newest record first
RequestedNewestFirst(st, ticker, data) ==
    [results    |-> IF DataTruthy(data) THEN <<data.d>> \o st.results
                    ELSE st.results,
     affiliates |-> IF DataTruthy(data) THEN st.affiliates
                    ELSE Append(st.affiliates, ticker),
     outcome    |-> Append(st.outcome, data.why),
     log        |-> Append(st.log, "request")]

\* a scrape_multiple that lists as affiliates the affiliate pages only
RequestedAffiliatesOnly(st, ticker, data) ==
    [results    |-> IF DataTruthy(data) THEN Append(st.results, data.d)
                    ELSE st.results,
     affiliates |-> IF DataTruthy(data) \/ data.why # "affiliate"
                    THEN st.affiliates
                    ELSE Append(st.affiliates, ticker),
     outcome    |-> Append(st.outcome, data.why),
     log        |-> Append(st.log, "request")]

\* data = self.scrape_stock(ticker); if data: ... else: ...
Requested(st, ticker, data) ==
    [results    |-> IF DataTruthy(data) THEN Append(st.results, data.d)
                    ELSE st.results,
     affiliates |-> IF DataTruthy(data) THEN st.affiliates
                    ELSE Append(st.affiliates, ticker),
     outcome    |-> Append(st.outcome, data.why),
     log        |-> Append(st.log, "request")]

\* time.sleep(delay)
Slept(st) == [st EXCEPT !.log = Append(@, "sleep")]

SleepAfterEach(i, n) == i <= n

\* if i < len(tickers):
SleepNeeded(i, n) == i < n

\* a loop that ends after its first turn
LoopOnce(i, n) == IF i < 1 /\ i < n THEN "request" ELSE "done"

\* the for statement: another turn, or the return
LoopNext(i, n) == IF i < n THEN "request" ELSE "done"

\* the end of the i-th turn
Turn(st, i, n) == IF SleepNeeded(i, n) THEN Slept(st) ELSE st

\* the loop from its i-th turn on; pages[k] is the response to the k-th
\* request
RECURSIVE ScrapeFrom(_, _, _, _)
ScrapeFrom(st, tickers, pages, i) ==
    IF i > Len(tickers) THEN st
    ELSE ScrapeFrom(Turn(Requested(st, tickers[i],
                                   scrape_stock(tickers[i], pages[i])),
                         i, Len(tickers)),
                    tickers, pages, i + 1)

scrape_multiple(tickers, pages) == ScrapeFrom(EmptyBatch, tickers, pages, 1)

----------------------------------------------------------------------------
(* Tickers and response pages *)

TickerA == <<"A">>

TickerB == <<"B">>

Tickers == {TickerA, TickerB}

\* the tickers in the order of ORDER BY ticker
TickerOrder == <<TickerA, TickerB>>

CompanyName == <<"C", "o">>

FailPage == [fails |-> TRUE, company |-> <<>>, table |-> <<>>]

AffiliatePage == [fails |-> FALSE, company |-> AffiliateName, table |-> <<>>]

QuotePage(key, text) ==
    [fails |-> FALSE, company |-> CompanyName, table |-> <<<<key, <<text>>>>>>]

\* a page with the price 1 and a label that parse_finviz_key does not know
OptionablePage ==
    [fails |-> FALSE, company |-> CompanyName,
     table |-> <<<<"optionable", <<<<"Y", "e", "s">>>>>>,
                 <<"price", <<<<"1">>>>>>>>]

\* the responses of the model: a failed request, the affiliate page, a
\* page whose dividend cell makes _split_dividend_amt raise, and pages
\* with no price, the price 1 (and the unknown label) and the price 2
Pages ==
    {FailPage, AffiliatePage,
     QuotePage("dividend_ttm", <<".", "(", "5", "%", ")">>),
     QuotePage("price", <<"-">>), OptionablePage,
     QuotePage("price", <<"2">>)}

----------------------------------------------------------------------------
(* The load layer: load_data.py, cron_scrape.py, migrate.py.               *)
(*                                                                         *)
(* A table is a function from the keys of its rows to the rows: stocks     *)
(* from tickers (PRIMARY KEY), stock_history from <<ticker, date>>         *)
(* (UNIQUE(ticker, date)).  A row is a function from the names of its      *)
(* non-NULL columns to their values; the key columns are not repeated in   *)
(* the row, and the columns id and scraped_at of stock_history, which no   *)
(* statement of the program sets, are left out.  A cell holds the Python   *)
(* value bound to the statement: the storage class the column's declared   *)
(* type gives it is not modelled.  A date is a day number, datetime.now()  *)
(* the day it is taken on.                                                 *)

Get(d, k) == IF DictHas(d, k) THEN DictGet(d, k) ELSE NoneV

\* Python's truth value of None, a number or a text
PyTruthy(v) ==
    CASE v.t = "none" -> FALSE
      [] v.t = "str"  -> v.s # <<>>
      [] IsNum(v)     -> v.mant # 0
      [] OTHER        -> TRUE

\* a or b
PyOr(a, b) == IF PyTruthy(a) THEN a ELSE b

DateTimeV(d) ==
    [t |-> "datetime", neg |-> FALSE, mant |-> d, scale |-> 0, s |-> <<>>]

\* float(value) if '.' in value else int(value); except ValueError: value
CleanedText(u) == PlainValue(u, u)

clean_value(value) ==
    IF value = NoneV \/ value = StrV(<<>>) \/ value = StrV(<<"N", "/", "A">>)
    THEN NoneV
    ELSE IF value.t = "str" THEN CleanedText(Strip(Remove(value.s, ",")))
    ELSE value

\* ' '.join(name.split()) on a text without blanks at its ends
RECURSIVE Squash(_)
Squash(s) ==
    IF Len(s) <= 1 THEN s
    ELSE IF IsSpace(s[1]) /\ IsSpace(s[2]) THEN Squash(Tail(s))
    ELSE <<s[1]>> \o Squash(Tail(s))

clean_company_name(name) ==
    IF ~PyTruthy(name) THEN NoneV
    ELSE StrV(Squash(Strip(Remove(Remove(name.s, "\r"), "\n"))))

\* ---- _extract_cell_texts ----------------------------------------------------
\* A value cell is the list of its children, each <<name, text>>: an element
\* with its tag name and the text inside it, or a string of the cell itself
\* under the name "#text".
BlockTagNames == {"b", "span", "small"}

\* tag.get_text(strip=True)
TagText(child) == Strip(child[2])

\* cell.find_all(['b', 'span', 'small'], recursive=False)
BlockTags(cell) == SelectSeq(cell, LAMBDA c : c[1] \in BlockTagNames)

\* cell.get_text(strip=True): the stripped strings of the cell, joined
RECURSIVE CellText(_)
CellText(cell) ==
    IF cell = <<>> THEN <<>> ELSE TagText(Head(cell)) \o CellText(Tail(cell))

NonEmptyTexts(tags) ==
    SelectSeq([i \in 1..Len(tags) |-> TagText(tags[i])], LAMBDA t : t # <<>>)

_extract_cell_texts(cell) ==
    IF Len(BlockTags(cell)) >= 2 /\ NonEmptyTexts(BlockTags(cell)) # <<>>
    THEN NonEmptyTexts(BlockTags(cell))
    ELSE IF CellText(cell) # <<>> THEN <<CellText(cell)>> ELSE <<>>

\* mapping.get(key, None): NoColumn stands for None
NoColumn == ""

parse_finviz_key(key) ==
    CASE key = "index" -> "market_index"
      [] key = "change" -> "price_change"
      [] key = "p_e" -> "pe_ratio"
      [] key = "forward_p_e" -> "forward_pe"
      [] key = "peg" -> "peg_ratio"
      [] key = "p_s" -> "ps_ratio"
      [] key = "p_b" -> "pb_ratio"
      [] key = "p_c" -> "pc_ratio"
      [] key = "p_fcf" -> "pfcf_ratio"
      [] key = "ev_sales" -> "ev_sales"
      [] key = "ev_ebitda" -> "ev_ebitda"
      [] key = "price" -> "price"
      [] key = "volume" -> "volume"
      [] key = "market_cap" -> "market_cap"
      [] key = "enterprise_value" -> "enterprise_value"
      [] key = "avg_volume" -> "avg_volume"
      [] key = "rel_volume" -> "rel_volume"
      [] key = "prev_close" -> "prev_close"
      [] key = "eps_(ttm)" -> "eps_ttm"
      [] key = "eps_ttm" -> "eps_ttm"
      [] key = "eps_next_y" -> "eps_growth_next_y"
      [] key = "eps_next_q" -> "eps_next_q"
      [] key = "eps_this_y" -> "eps_this_y"
      [] key = "eps_next_5y" -> "eps_growth_next_5y"
      [] key = "eps_past_5y" -> "eps_past_5y"
      [] key = "eps_y_y_ttm" -> "eps_growth_ttm"
      [] key = "eps_qoq" -> "eps_qoq"
      [] key = "sales_y_y_ttm" -> "revenue_growth_ttm"
      [] key = "revenue_growth_ttm" -> "revenue_growth_ttm"
      [] key = "sales_qyq" -> "sales_qyq"
      [] key = "income" -> "income"
      [] key = "sales" -> "sales"
      [] key = "profit_margin" -> "profit_margin"
      [] key = "oper._margin" -> "operating_margin"
      [] key = "operating_margin" -> "operating_margin"
      [] key = "gross_margin" -> "gross_margin"
      [] key = "roa" -> "roa"
      [] key = "roe" -> "roe"
      [] key = "roi" -> "roi"
      [] key = "roic" -> "roic"
      [] key = "rsi_(14)" -> "rsi"
      [] key = "rsi" -> "rsi"
      [] key = "beta" -> "beta"
      [] key = "atr_(14)" -> "atr"
      [] key = "atr" -> "atr"
      [] key = "sma20" -> "sma20"
      [] key = "sma50" -> "sma50"
      [] key = "sma200" -> "sma200"
      [] key = "insider_own" -> "insider_own"
      [] key = "insider_trans" -> "insider_trans"
      [] key = "inst_own" -> "inst_own"
      [] key = "inst_trans" -> "inst_trans"
      [] key = "shs_outstand" -> "shares_outstanding"
      [] key = "shs_float" -> "shares_float"
      [] key = "short_float" -> "short_float"
      [] key = "short_ratio" -> "short_ratio"
      [] key = "short_interest" -> "short_interest"
      [] key = "debt_eq" -> "debt_to_equity"
      [] key = "debt_to_eq" -> "debt_to_equity"
      [] key = "lt_debt_eq" -> "lt_debt_to_equity"
      [] key = "current_ratio" -> "current_ratio"
      [] key = "quick_ratio" -> "quick_ratio"
      [] key = "cash_sh" -> "cash_per_share"
      [] key = "book_sh" -> "book_per_share"
      [] key = "book_value" -> "book_per_share"
      [] key = "dividend_ex-date" -> "ex_dividend_date"
      [] key = "ex-dividend_date" -> "ex_dividend_date"
      [] key = "payout" -> "payout_ratio"
      [] key = "target_price" -> "target_price"
      [] key = "recom" -> "recommendation"
      [] key = "recommendation" -> "recommendation"
      [] key = "perf_week" -> "perf_week"
      [] key = "perf_month" -> "perf_month"
      [] key = "perf_quarter" -> "perf_quarter"
      [] key = "perf_half_y" -> "perf_half_y"
      [] key = "perf_year" -> "perf_year"
      [] key = "perf_ytd" -> "perf_ytd"
      [] key = "perf_3y" -> "perf_3y"
      [] key = "perf_5y" -> "perf_5y"
      [] key = "perf_10y" -> "perf_10y"
      [] key = "employees" -> "employees"
      [] key = "ipo" -> "ipo_date"
      [] key = "earnings" -> "earnings_date"
      [] key = "option_short" -> "option_short"
      [] key = "52w_high" -> "week_52_high"
      [] key = "52w_high_pct" -> "week_52_high_pct"
      [] key = "52w_low" -> "week_52_low"
      [] key = "52w_low_pct" -> "week_52_low_pct"
      [] key = "volatility_week" -> "volatility_week"
      [] key = "volatility_month" -> "volatility_month"
      [] key = "eps_past_3y" -> "eps_past_3y"
      [] key = "sales_past_3y" -> "sales_past_3y"
      [] key = "sales_past_5y" -> "sales_past_5y"
      [] key = "dividend_ttm" -> "dividend_ttm"
      [] key = "dividend_yield" -> "dividend_yield"
      [] key = "dividend_est" -> "dividend_est"
      [] key = "dividend_yield_est" -> "dividend_yield_est"
      [] key = "dividend_gr_3y" -> "dividend_gr_3y"
      [] key = "dividend_gr_5y" -> "dividend_gr_5y"
      [] key = "eps_surprise" -> "eps_surprise"
      [] key = "sales_surprise" -> "sales_surprise"
      [] OTHER -> NoColumn

SQLITE_TO_PG(col) ==
    CASE col = "price_change" -> "price_change_pct"
      [] col = "profit_margin" -> "profit_margin_pct"
      [] col = "operating_margin" -> "operating_margin_pct"
      [] col = "gross_margin" -> "gross_margin_pct"
      [] col = "roe" -> "roe_pct"
      [] col = "roa" -> "roa_pct"
      [] col = "roi" -> "roi_pct"
      [] col = "roic" -> "roic_pct"
      [] col = "eps_growth_ttm" -> "eps_growth_ttm_pct"
      [] col = "revenue_growth_ttm" -> "revenue_growth_ttm_pct"
      [] col = "eps_growth_next_y" -> "eps_growth_next_y_pct"
      [] col = "eps_growth_next_5y" -> "eps_growth_next_5y_pct"
      [] col = "eps_past_3y" -> "eps_past_3y_pct"
      [] col = "eps_past_5y" -> "eps_past_5y_pct"
      [] col = "sales_past_3y" -> "sales_past_3y_pct"
      [] col = "sales_past_5y" -> "sales_past_5y_pct"
      [] col = "sales_qyq" -> "sales_qyq_pct"
      [] col = "eps_qoq" -> "eps_qoq_pct"
      [] col = "volatility_week" -> "volatility_week_pct"
      [] col = "volatility_month" -> "volatility_month_pct"
      [] col = "insider_own" -> "insider_own_pct"
      [] col = "insider_trans" -> "insider_trans_pct"
      [] col = "inst_own" -> "inst_own_pct"
      [] col = "inst_trans" -> "inst_trans_pct"
      [] col = "short_float" -> "short_float_pct"
      [] col = "dividend_yield" -> "dividend_yield_pct"
      [] col = "dividend_yield_est" -> "dividend_yield_est_pct"
      [] col = "payout_ratio" -> "payout_ratio_pct"
      [] col = "dividend_gr_3y" -> "dividend_gr_3y_pct"
      [] col = "dividend_gr_5y" -> "dividend_gr_5y_pct"
      [] col = "eps_surprise" -> "eps_surprise_pct"
      [] col = "sales_surprise" -> "sales_surprise_pct"
      [] col = "perf_week" -> "perf_week_pct"
      [] col = "perf_month" -> "perf_month_pct"
      [] col = "perf_quarter" -> "perf_quarter_pct"
      [] col = "perf_half_y" -> "perf_half_y_pct"
      [] col = "perf_year" -> "perf_year_pct"
      [] col = "perf_ytd" -> "perf_ytd_pct"
      [] col = "perf_3y" -> "perf_3y_pct"
      [] col = "perf_5y" -> "perf_5y_pct"
      [] col = "perf_10y" -> "perf_10y_pct"
      [] OTHER -> col

\* PG_TO_API: Postgres column name -> API column name sent to the frontend
PG_TO_API_Stale ==
    [price_change_pct |-> "price_change"]

PG_TO_API ==
    [price_change_pct |-> "price_change",
     profit_margin_pct |-> "profit_margin",
     operating_margin_pct |-> "operating_margin",
     gross_margin_pct |-> "gross_margin",
     roe_pct |-> "roe",
     roa_pct |-> "roa",
     roi_pct |-> "roi",
     roic_pct |-> "roic",
     eps_growth_ttm_pct |-> "eps_growth_ttm",
     revenue_growth_ttm_pct |-> "revenue_growth_ttm",
     eps_growth_next_y_pct |-> "eps_growth_next_y",
     eps_growth_next_5y_pct |-> "eps_growth_next_5y",
     eps_past_3y_pct |-> "eps_past_3y",
     eps_past_5y_pct |-> "eps_past_5y",
     sales_past_3y_pct |-> "sales_past_3y",
     sales_past_5y_pct |-> "sales_past_5y",
     sales_qyq_pct |-> "sales_qyq",
     eps_qoq_pct |-> "eps_qoq",
     volatility_week_pct |-> "volatility_week",
     volatility_month_pct |-> "volatility_month",
     insider_own_pct |-> "insider_own",
     insider_trans_pct |-> "insider_trans",
     inst_own_pct |-> "inst_own",
     inst_trans_pct |-> "inst_trans",
     short_float_pct |-> "short_float",
     dividend_yield_pct |-> "dividend_yield",
     dividend_yield_est_pct |-> "dividend_yield_est",
     payout_ratio_pct |-> "payout_ratio",
     dividend_gr_3y_pct |-> "dividend_gr_3y",
     dividend_gr_5y_pct |-> "dividend_gr_5y",
     eps_surprise_pct |-> "eps_surprise",
     sales_surprise_pct |-> "sales_surprise",
     perf_week_pct |-> "perf_week",
     perf_month_pct |-> "perf_month",
     perf_quarter_pct |-> "perf_quarter",
     perf_half_y_pct |-> "perf_half_y",
     perf_year_pct |-> "perf_year",
     perf_ytd_pct |-> "perf_ytd",
     perf_3y_pct |-> "perf_3y",
     perf_5y_pct |-> "perf_5y",
     perf_10y_pct |-> "perf_10y"]

\* api_name = PG_TO_API.get(col, col)
ApiName(col) == IF col \in DOMAIN PG_TO_API THEN PG_TO_API[col] ELSE col

\* the keys of the mapping of parse_finviz_key
FinvizLabels ==
    {"index", "change", "p_e", "forward_p_e", "peg", "p_s", "p_b", "p_c",
     "p_fcf", "ev_sales", "ev_ebitda", "price", "volume", "market_cap",
     "enterprise_value", "avg_volume", "rel_volume", "prev_close",
     "eps_(ttm)", "eps_ttm", "eps_next_y", "eps_next_q", "eps_this_y",
     "eps_next_5y", "eps_past_5y", "eps_y_y_ttm", "eps_qoq",
     "sales_y_y_ttm", "revenue_growth_ttm", "sales_qyq", "income", "sales",
     "profit_margin", "oper._margin", "operating_margin", "gross_margin",
     "roa", "roe", "roi", "roic", "rsi_(14)", "rsi", "beta", "atr_(14)",
     "atr", "sma20", "sma50", "sma200", "insider_own", "insider_trans",
     "inst_own", "inst_trans", "shs_outstand", "shs_float", "short_float",
     "short_ratio", "short_interest", "debt_eq", "debt_to_eq",
     "lt_debt_eq", "current_ratio", "quick_ratio", "cash_sh", "book_sh",
     "book_value", "dividend_ex-date", "ex-dividend_date", "payout",
     "target_price", "recom", "recommendation", "perf_week", "perf_month",
     "perf_quarter", "perf_half_y", "perf_year", "perf_ytd", "perf_3y",
     "perf_5y", "perf_10y", "employees", "ipo", "earnings", "option_short",
     "52w_high", "52w_high_pct", "52w_low", "52w_low_pct",
     "volatility_week", "volatility_month", "eps_past_3y", "sales_past_3y",
     "sales_past_5y", "dividend_ttm", "dividend_yield", "dividend_est",
     "dividend_yield_est", "dividend_gr_3y", "dividend_gr_5y",
     "eps_surprise", "sales_surprise"}

\* the record keys the column loops pass over
SkippedKeys == {"ticker", "company_name", "industry", "sector", "scraped_at"}

\* if cleaned is not None: columns.append(db_column); values.append(cleaned)
AddColumn(cols, db_column, cleaned) ==
    IF cleaned # NoneV THEN Append(cols, <<db_column, cleaned>>) ELSE cols

\* a column loop that takes an unknown key for the name of its column
SqliteItemKeepingUnknown(cols, key, value) ==
    IF key \in SkippedKeys THEN cols
    ELSE AddColumn(cols,
                   IF parse_finviz_key(key) = NoColumn THEN key
                   ELSE parse_finviz_key(key),
                   clean_value(value))

\* one turn of `for key, value in stock.items()` of update_sqlite and of
\* load_data; cols is the list of <<column, value>> so far
SqliteItem(cols, key, value) ==
    IF key \in SkippedKeys \/ parse_finviz_key(key) = NoColumn THEN cols
    ELSE AddColumn(cols, parse_finviz_key(key), clean_value(value))

RECURSIVE SqliteColumns(_, _, _)
SqliteColumns(cols, stock, i) ==
    IF i > Len(stock) THEN cols
    ELSE SqliteColumns(SqliteItem(cols, stock[i][1], stock[i][2]), stock, i + 1)

\* the same turn in update_postgres
PgItem(cols, key, value) ==
    IF key \in SkippedKeys \/ parse_finviz_key(key) = NoColumn THEN cols
    ELSE AddColumn(cols, SQLITE_TO_PG(parse_finviz_key(key)), clean_value(value))

RECURSIVE PgColumns(_, _, _)
PgColumns(cols, stock, i) ==
    IF i > Len(stock) THEN cols
    ELSE PgColumns(PgItem(cols, stock[i][1], stock[i][2]), stock, i + 1)

\* The value an INSERT gives column c of the column list cols.  SQLite
\* takes the first of two values given for one column; Postgres rejects
\* such a statement, and no record of the model maps two keys to one column.
FirstOf(cols, c) == cols[MinOf({k \in 1..Len(cols) : cols[k][1] = c})][2]

RowOf(cols) ==
    [c \in {x \in DictKeys(cols) : FirstOf(cols, x) # NoneV} |-> FirstOf(cols, c)]

EmptyTable == [x \in {} |-> NoneV]

Inserted(table, key, row) ==
    [x \in DOMAIN table \cup {key} |-> IF x = key THEN row ELSE table[x]]

\* a REPLACE that on a conflict deletes every row, not the one of the key
INSERT_AFTER_DELETE_ALL(table, key, cols) ==
    IF key \in DOMAIN table THEN [x \in {key} |-> RowOf(cols)]
    ELSE Inserted(table, key, RowOf(cols))

\* INSERT OR REPLACE INTO stocks (cols) VALUES (...): the row of the key is
\* deleted and a new one inserted, so a column not in cols takes its
\* default, which is NULL for every column the statements leave out
INSERT_OR_REPLACE(table, key, cols) == Inserted(table, key, RowOf(cols))

\* the row after DO UPDATE SET col = EXCLUDED.col for the columns of cols
Merged(old, cols) ==
    [c \in (DOMAIN old \ DictKeys(cols)) \cup DOMAIN RowOf(cols) |->
        IF c \in DictKeys(cols) THEN FirstOf(cols, c) ELSE old[c]]

\* INSERT INTO stocks (cols) VALUES (...) ON CONFLICT (ticker) DO UPDATE SET
\* col = EXCLUDED.col, for each col of cols
ON_CONFLICT_DO_UPDATE(table, key, cols) ==
    IF key \in DOMAIN table
    THEN Inserted(table, key, Merged(table[key], cols))
    ELSE Inserted(table, key, RowOf(cols))

INSERT_OVERWRITING(table, key, row) == Inserted(table, key, row)

\* INSERT OR IGNORE INTO stock_history ...
INSERT_OR_IGNORE(table, key, row) ==
    IF key \in DOMAIN table THEN table ELSE Inserted(table, key, row)

\* INSERT INTO ... ON CONFLICT (...) DO NOTHING
ON_CONFLICT_DO_NOTHING(table, key, row) ==
    IF key \in DOMAIN table THEN table ELSE Inserted(table, key, row)

\* the metric columns of stock_history, by their SQLite names
HistoryColumns ==
    {"price", "market_cap", "volume", "pe_ratio", "ps_ratio", "pb_ratio",
     "profit_margin", "revenue_growth_ttm", "rsi", "beta", "insider_own",
     "inst_own", "debt_to_equity", "target_price", "recommendation",
     "perf_week", "perf_month", "perf_quarter", "perf_year"}

\* h_vals of update_sqlite and update_postgres: the value bound to column col
h_vals(stock, col) ==
    CASE col = "pe_ratio" -> Get(stock, "p_e")
      [] col = "ps_ratio" -> Get(stock, "p_s")
      [] col = "pb_ratio" -> Get(stock, "p_b")
      [] OTHER            -> Get(stock, col)

\* history_data of load_data
history_data(stock, col) ==
    CASE col = "revenue_growth_ttm" ->
            PyOr(Get(stock, "sales_y_y_ttm"), Get(stock, "revenue_growth_ttm"))
      [] col = "rsi" -> PyOr(Get(stock, "rsi_(14)"), Get(stock, "rsi"))
      [] col = "debt_to_equity" ->
            PyOr(Get(stock, "debt_eq"), Get(stock, "debt_to_equity"))
      [] col = "recommendation" ->
            PyOr(Get(stock, "recom"), Get(stock, "recommendation"))
      [] OTHER -> h_vals(stock, col)

\* h_cols of update_postgres: the Postgres name of a history column
h_cols(col) ==
    CASE col = "profit_margin"      -> "profit_margin_pct"
      [] col = "revenue_growth_ttm" -> "revenue_growth_ttm_pct"
      [] col = "insider_own"        -> "insider_own_pct"
      [] col = "inst_own"           -> "inst_own_pct"
      [] col = "perf_week"          -> "perf_week_pct"
      [] col = "perf_month"         -> "perf_month_pct"
      [] col = "perf_quarter"       -> "perf_quarter_pct"
      [] col = "perf_year"          -> "perf_year_pct"
      [] OTHER                      -> col

\* the history row of update_sqlite: [clean_value(v) for v in h_vals]
SqliteHistoryRow(stock) ==
    [c \in {x \in HistoryColumns : clean_value(h_vals(stock, x)) # NoneV} |->
        clean_value(h_vals(stock, c))]

PgHistorySource(pc) == CHOOSE x \in HistoryColumns : h_cols(x) = pc

PgHistoryRow(stock) ==
    [pc \in {h_cols(x) : x \in {y \in HistoryColumns :
                                   clean_value(h_vals(stock, y)) # NoneV}} |->
        clean_value(h_vals(stock, PgHistorySource(pc)))]

LoadHistoryRow(stock) ==
    [c \in {x \in HistoryColumns : clean_value(history_data(stock, x)) # NoneV}
        |-> clean_value(history_data(stock, c))]

\* A database is [stocks, history].

\* columns = ['ticker', 'company_name', 'last_updated'] and their values
KeyColumns(stock, d) ==
    <<<<"company_name", clean_company_name(Get(stock, "company_name"))>>,
      <<"last_updated", DateTimeV(d)>>>>

\* one turn of the loop of update_sqlite for a record with a ticker
SqliteUpsert(db, stock, ticker, d) ==
    [stocks  |-> INSERT_OR_REPLACE(db.stocks, ticker,
                     SqliteColumns(KeyColumns(stock, d), stock, 1)),
     history |-> INSERT_OR_IGNORE(db.history, <<ticker, d>>,
                     SqliteHistoryRow(stock))]

\* update_sqlite(stocks) on database db, on day d, from the i-th record of
\* its argument on; ticker = stock.get('ticker'); if not ticker: continue
RECURSIVE update_sqlite(_, _, _, _)
update_sqlite(db, records, i, d) ==
    IF i > Len(records) THEN db
    ELSE IF ~PyTruthy(Get(records[i], "ticker"))
    THEN update_sqlite(db, records, i + 1, d)
    ELSE update_sqlite(
             SqliteUpsert(db, records[i], Get(records[i], "ticker").s, d),
             records, i + 1, d)


PgUpsert(db, stock, ticker, d) ==
    [stocks  |-> ON_CONFLICT_DO_UPDATE(db.stocks, ticker,
                     PgColumns(KeyColumns(stock, d), stock, 1)),
     history |-> ON_CONFLICT_DO_NOTHING(db.history, <<ticker, d>>,
                     PgHistoryRow(stock))]

\* update_postgres(stocks), likewise
RECURSIVE update_postgres(_, _, _, _)
update_postgres(db, records, i, d) ==
    IF i > Len(records) THEN db
    ELSE IF ~PyTruthy(Get(records[i], "ticker"))
    THEN update_postgres(db, records, i + 1, d)
    ELSE update_postgres(
             PgUpsert(db, records[i], Get(records[i], "ticker").s, d),
             records, i + 1, d)


\* load_csv_mapping on StockSource.csv: the file lists ticker A, with its
\* industry group and sector, and not ticker B
industry_map(ticker) ==
    IF ticker = TickerA
    THEN <<<<"industry", StrV(<<"T", "e", "c", "h">>)>>,
           <<"sector", StrV(<<"I", "T">>)>>>>
    ELSE <<>>

\* columns = ['ticker', 'company_name', 'industry', 'sector', 'last_updated']
LoadKeyColumns(stock, csv_data, d) ==
    <<<<"company_name", clean_company_name(Get(stock, "company_name"))>>,
      <<"industry", PyOr(Get(csv_data, "industry"), Get(stock, "industry"))>>,
      <<"sector", PyOr(Get(csv_data, "sector"), Get(stock, "sector"))>>,
      <<"last_updated", DateTimeV(d)>>>>

LoadUpsert(db, stock, ticker, d) ==
    [stocks  |-> INSERT_OR_REPLACE(db.stocks, ticker,
                     SqliteColumns(LoadKeyColumns(stock, industry_map(ticker), d),
                                   stock, 1)),
     history |-> INSERT_OR_IGNORE(db.history, <<ticker, d>>,
                     LoadHistoryRow(stock))]

\* load_data on the stocks list of the JSON file, from its i-th record on
RECURSIVE load_data(_, _, _, _)
load_data(db, records, i, d) ==
    IF i > Len(records) THEN db
    ELSE IF ~PyTruthy(Get(records[i], "ticker"))
    THEN load_data(db, records, i + 1, d)
    ELSE load_data(
             LoadUpsert(db, records[i], Get(records[i], "ticker").s, d),
             records, i + 1, d)


\* get_tickers: SELECT ticker FROM stocks ORDER BY ticker
get_tickers(table) == SelectSeq(TickerOrder, LAMBDA t : t \in DOMAIN table)

----------------------------------------------------------------------------
(* migrate.py *)

Placeholders ==
    {NoneV, StrV(<<>>), StrV(<<"-">>), StrV(<<"-", " ", "-">>)}

\* round(float(value), 2): half to even on the decimal value.  (round()
\* works on the binary float: a decimal tie that the float does not hold
\* exactly may fall either way.)
Round2At(v, q, r, half) ==
    NumV("float", v.neg,
         IF r > half \/ (r = half /\ q % 2 = 1) THEN q + 1 ELSE q, 2)

Round2(v) ==
    IF v.scale <= 2 THEN NumV("float", v.neg, v.mant, v.scale)
    ELSE Round2At(v, v.mant \div Pow10(v.scale - 2),
                  v.mant % Pow10(v.scale - 2), Pow10(v.scale - 2) \div 2)

\* the end of the match of ^(-?\d+\.?\d*) in u, 0 when there is none; a is
\* the length of the sign, e the end of the first run of digits
NumPrefixEnd(u, a, e) ==
    IF e = a THEN 0
    ELSE IF e < Len(u) /\ u[e + 1] = "." THEN e + 1 + DigitRun(u, e + 2)
    ELSE e

\* float(match.group(1)), rounded, or None
RoundedPrefix(u, a) ==
    IF NumPrefixEnd(u, a, a + DigitRun(u, a + 1)) = 0 THEN NoneV
    ELSE Round2(FloatOf(Sub(u, 1, NumPrefixEnd(u, a, a + DigitRun(u, a + 1)))))

clean_numeric(value) ==
    IF value \in Placeholders THEN NoneV
    ELSE IF IsNum(value) THEN Round2(value)
    ELSE IF value.t = "str"
    THEN RoundedPrefix(Remove(Strip(value.s), "%"),
                       Len(Remove(Strip(value.s), "%"))
                           - Len(Unsigned(Remove(Strip(value.s), "%"))))
    ELSE NoneV

\* str(value).strip(); a column that is not numeric holds a text or a
\* timestamp
clean_text(value) ==
    IF value \in Placeholders THEN NoneV
    ELSE IF value.t = "str" THEN StrV(Strip(value.s))
    ELSE value

column_mapping(col) ==
    CASE col = "price_change" -> "price_change_pct"
      [] col = "profit_margin" -> "profit_margin_pct"
      [] col = "operating_margin" -> "operating_margin_pct"
      [] col = "gross_margin" -> "gross_margin_pct"
      [] col = "roe" -> "roe_pct"
      [] col = "roa" -> "roa_pct"
      [] col = "roi" -> "roi_pct"
      [] col = "roic" -> "roic_pct"
      [] col = "eps_growth_ttm" -> "eps_growth_ttm_pct"
      [] col = "revenue_growth_ttm" -> "revenue_growth_ttm_pct"
      [] col = "eps_growth_next_y" -> "eps_growth_next_y_pct"
      [] col = "eps_growth_next_5y" -> "eps_growth_next_5y_pct"
      [] col = "eps_past_3y" -> "eps_past_3y_pct"
      [] col = "eps_past_5y" -> "eps_past_5y_pct"
      [] col = "sales_past_3y" -> "sales_past_3y_pct"
      [] col = "sales_past_5y" -> "sales_past_5y_pct"
      [] col = "sales_qyq" -> "sales_qyq_pct"
      [] col = "eps_qoq" -> "eps_qoq_pct"
      [] col = "volatility_week" -> "volatility_week_pct"
      [] col = "volatility_month" -> "volatility_month_pct"
      [] col = "insider_own" -> "insider_own_pct"
      [] col = "insider_trans" -> "insider_trans_pct"
      [] col = "inst_own" -> "inst_own_pct"
      [] col = "inst_trans" -> "inst_trans_pct"
      [] col = "short_float" -> "short_float_pct"
      [] col = "dividend_yield" -> "dividend_yield_pct"
      [] col = "dividend_yield_est" -> "dividend_yield_est_pct"
      [] col = "payout_ratio" -> "payout_ratio_pct"
      [] col = "dividend_gr_3y" -> "dividend_gr_3y_pct"
      [] col = "dividend_gr_5y" -> "dividend_gr_5y_pct"
      [] col = "eps_surprise" -> "eps_surprise_pct"
      [] col = "sales_surprise" -> "sales_surprise_pct"
      [] col = "perf_week" -> "perf_week_pct"
      [] col = "perf_month" -> "perf_month_pct"
      [] col = "perf_quarter" -> "perf_quarter_pct"
      [] col = "perf_half_y" -> "perf_half_y_pct"
      [] col = "perf_year" -> "perf_year_pct"
      [] col = "perf_ytd" -> "perf_ytd_pct"
      [] col = "perf_3y" -> "perf_3y_pct"
      [] col = "perf_5y" -> "perf_5y_pct"
      [] col = "perf_10y" -> "perf_10y_pct"
      [] OTHER -> col

numeric_cols ==
    {"price", "price_change", "prev_close", "volume", "market_cap",
     "enterprise_value", "pe_ratio", "forward_pe", "peg_ratio", "ps_ratio",
     "pb_ratio", "pc_ratio", "pfcf_ratio", "ev_sales", "ev_ebitda",
     "profit_margin", "operating_margin", "gross_margin", "roe", "roa",
     "roi", "roic", "eps_ttm", "eps_growth_ttm", "revenue_growth_ttm",
     "eps_growth_next_y", "eps_growth_next_5y", "eps_next_q", "eps_this_y",
     "eps_past_3y", "eps_past_5y", "sales_past_3y", "sales_past_5y",
     "sales_qyq", "eps_qoq", "rsi", "beta", "atr", "volatility_week",
     "volatility_month", "rel_volume", "avg_volume", "week_52_high",
     "week_52_high_pct", "week_52_low", "week_52_low_pct", "sma20", "sma50",
     "sma200", "insider_own", "insider_trans", "inst_own", "inst_trans",
     "shares_outstanding", "shares_float", "short_float", "short_ratio",
     "short_interest", "debt_to_equity", "lt_debt_to_equity",
     "current_ratio", "quick_ratio", "cash_per_share", "book_per_share",
     "dividend_yield", "dividend_ttm", "dividend_est", "dividend_yield_est",
     "payout_ratio", "dividend_gr_3y", "dividend_gr_5y", "eps_surprise",
     "sales_surprise", "target_price", "recommendation", "perf_week",
     "perf_month", "perf_quarter", "perf_half_y", "perf_year", "perf_ytd",
     "perf_3y", "perf_5y", "perf_10y", "employees", "income", "sales"}

hist_mapping(col) ==
    CASE col = "profit_margin" -> "profit_margin_pct"
      [] col = "revenue_growth_ttm" -> "revenue_growth_ttm_pct"
      [] col = "insider_own" -> "insider_own_pct"
      [] col = "inst_own" -> "inst_own_pct"
      [] col = "perf_week" -> "perf_week_pct"
      [] col = "perf_month" -> "perf_month_pct"
      [] col = "perf_quarter" -> "perf_quarter_pct"
      [] col = "perf_year" -> "perf_year_pct"
      [] OTHER -> col

\* the value migrate binds for column col of a stocks row
CleanedCell(col, value) ==
    IF col \in numeric_cols THEN clean_numeric(value) ELSE clean_text(value)

StocksSource(row, pc) == CHOOSE c \in DOMAIN row : column_mapping(c) = pc

MigratedStock(row) ==
    [pc \in {column_mapping(c) :
                c \in {x \in DOMAIN row : CleanedCell(x, row[x]) # NoneV}} |->
        CleanedCell(StocksSource(row, pc), row[StocksSource(row, pc)])]

HistorySource(row, pc) == CHOOSE c \in DOMAIN row : hist_mapping(c) = pc

MigratedHistory(row) ==
    [pc \in {hist_mapping(c) :
                c \in {x \in DOMAIN row : clean_numeric(row[x]) # NoneV}} |->
        clean_numeric(row[HistorySource(row, pc)])]

\* INSERT ... ON CONFLICT DO NOTHING of every row of the SQLite table
MigratedInto(table, source, Rows) ==
    [x \in DOMAIN table \cup Rows |->
        IF x \in DOMAIN table THEN table[x] ELSE source[x]]

\* migrate: pg is the Postgres database, lite the SQLite one
migrate(pg, lite) ==
    [stocks  |-> MigratedInto(pg.stocks,
                     [x \in DOMAIN lite.stocks |-> MigratedStock(lite.stocks[x])],
                     DOMAIN lite.stocks),
     history |-> MigratedInto(pg.history,
                     [x \in DOMAIN lite.history |->
                         MigratedHistory(lite.history[x])],
                     DOMAIN lite.history)]

----------------------------------------------------------------------------
(* Each component is exercised by a specification of its own; the          *)
(* variables of the other components then rest at these values.            *)

NotRun == [raised |-> FALSE, d |-> <<>>]

IdleSplit ==
    /\ svRaw = <<>>
    /\ svLabel = ""
    /\ svOut = NotRun

NotScraped == NoRecord("unset")

IdleCell ==
    /\ cellLabel = ""
    /\ cellFrags = <<>>
    /\ recFrags = NotScraped
    /\ recJoined = NotScraped

IdleBatch ==
    /\ smTickers = <<>>
    /\ smI = 0
    /\ smPc = "idle"
    /\ sm = EmptyBatch

NoFiles == [x \in {} |-> <<>>]

IdleDb ==
    /\ backend = "sqlite"
    /\ stocks = EmptyTable
    /\ history = EmptyTable
    /\ today = 1
    /\ runs = 0
    /\ op = "none"
    /\ files = NoFiles

NotParsed == StrV(<<"u", "n", "s", "e", "t">>)

IdleParse ==
    /\ pvToken = <<>>
    /\ pvOut = NotParsed

IdleApi ==
    /\ apiKey = ""
    /\ apiName = <<>>

NotExtracted == <<<<"unset">>>>

IdleExtract ==
    /\ exCell = <<>>
    /\ exTexts = NotExtracted

----------------------------------------------------------------------------
(* app.py: the shortlist.  What is stored is the list of the entries in    *)
(* the order they were added: the rows of the shortlist table on Postgres, *)
(* the list of dicts of shortlist.json otherwise.  An entry is its ticker  *)
(* and the price at the time of adding; the timestamp is left out.         *)

Entry(ticker, price) == [ticker |-> ticker, added_price |-> price]

EntryTickers(sl) == [i \in 1..Len(sl) |-> sl[i].ticker]

InList(ticker, tickers) == \E i \in 1..Len(tickers) : tickers[i] = ticker

\* ORDER BY ticker, and sorted(): the entries in the order of the tickers
RECURSIVE OrderByTicker(_, _)
OrderByTicker(sl, order) ==
    IF order = <<>> THEN <<>>
    ELSE SelectSeq(sl, LAMBDA e : e.ticker = Head(order))
            \o OrderByTicker(sl, Tail(order))

\* SELECT ticker, added_price, added_at FROM shortlist ORDER BY ticker on
\* Postgres; json.load of the file otherwise
_load_shortlist_detailed(be, sl) ==
    IF be = "postgres" THEN OrderByTicker(sl, TickerOrder) ELSE sl

\* SELECT ticker FROM shortlist ORDER BY ticker; [d['ticker'] for d in data]
_load_shortlist(be, sl) == EntryTickers(_load_shortlist_detailed(be, sl))

\* an insert that does not look at the tickers already there
_save_shortlist_add_Again(be, sl, ticker, price) ==
    Append(sl, Entry(ticker, price))

\* INSERT ... ON CONFLICT (ticker) DO NOTHING; if ticker not in tickers:
\* sl.append(...)
_save_shortlist_add(be, sl, ticker, price) ==
    IF InList(ticker, EntryTickers(sl)) THEN sl
    ELSE Append(sl, Entry(ticker, price))

\* DELETE FROM shortlist WHERE ticker = ...; [d for d in sl if ...]
_save_shortlist_remove(be, sl, ticker) ==
    SelectSeq(sl, LAMBDA e : e.ticker # ticker)

\* for t in sorted(set(tickers)): detailed.append({'ticker': t, ...})
_save_shortlist_file(tickers) ==
    [i \in 1..Len(SelectSeq(TickerOrder, LAMBDA t : InList(t, tickers))) |->
        Entry(SelectSeq(TickerOrder, LAMBDA t : InList(t, tickers))[i], NoneV)]

\* the branch api_shortlist_update takes
UpdateBranch(action, currently_in) ==
    IF action = "add" \/ (action = "toggle" /\ ~currently_in) THEN "add"
    ELSE IF action = "remove" \/ (action = "toggle" /\ currently_in)
    THEN "remove"
    ELSE "keep"

UpdateSaved(be, sl, ticker, price, branch) ==
    IF branch = "add" THEN _save_shortlist_add(be, sl, ticker, price)
    ELSE IF branch = "remove" THEN _save_shortlist_remove(be, sl, ticker)
    ELSE sl

UpdateResponse(be, saved, action, ticker, currently_in, branch) ==
    [route |-> "update", action |-> action, ticker |-> ticker,
     was |-> currently_in,
     shortlist |-> _load_shortlist(be, saved),
     shortlist_detailed |-> _load_shortlist_detailed(be, saved),
     shortlisted |-> IF branch = "add" THEN TRUE
                     ELSE IF branch = "remove" THEN FALSE
                     ELSE currently_in]

\* POST /api/shortlist: [saved, response]
api_shortlist_update(be, sl, ticker, action, price) ==
    [saved |-> UpdateSaved(be, sl, ticker, price,
                   UpdateBranch(action, InList(ticker, _load_shortlist(be, sl)))),
     response |-> UpdateResponse(be,
                   UpdateSaved(be, sl, ticker, price,
                       UpdateBranch(action, InList(ticker, _load_shortlist(be, sl)))),
                   action, ticker, InList(ticker, _load_shortlist(be, sl)),
                   UpdateBranch(action, InList(ticker, _load_shortlist(be, sl))))]

\* for t in tickers: _save_shortlist_add(t)
RECURSIVE AddEach(_, _, _)
AddEach(be, sl, tickers) ==
    IF tickers = <<>> THEN sl
    ELSE AddEach(be, _save_shortlist_add(be, sl, Head(tickers), NoneV),
                 Tail(tickers))

\* for t in tickers: _save_shortlist_remove(t)
RECURSIVE RemoveEach(_, _, _)
RemoveEach(be, sl, tickers) ==
    IF tickers = <<>> THEN sl
    ELSE RemoveEach(be, _save_shortlist_remove(be, sl, Head(tickers)),
                    Tail(tickers))

BulkSaved(be, sl, tickers, action) ==
    IF action = "add" THEN AddEach(be, sl, tickers)
    ELSE IF action = "remove" THEN RemoveEach(be, sl, tickers)
    ELSE IF action = "set"
    THEN IF be = "postgres" THEN AddEach(be, <<>>, tickers)
         ELSE _save_shortlist_file(tickers)
    ELSE sl

\* POST /api/shortlist/bulk: [saved, response]
api_shortlist_bulk(be, sl, tickers, action) ==
    [saved |-> BulkSaved(be, sl, tickers, action),
     response |->
        [route |-> "bulk", action |-> action,
         shortlist |-> _load_shortlist(be, BulkSaved(be, sl, tickers, action)),
         shortlist_detailed |->
            _load_shortlist_detailed(be, BulkSaved(be, sl, tickers, action))]]

\* GET /api/shortlist
api_shortlist_get(be, sl) ==
    [route |-> "get", action |-> "get",
     shortlist |-> _load_shortlist(be, sl),
     shortlist_detailed |-> _load_shortlist_detailed(be, sl)]

NoResp == [action |-> "none"]

IdleShortlist ==
    /\ shortlist = <<>>
    /\ slResp = NoResp
    /\ slPrev = NoResp

IdleCommit ==
    /\ cmPc = "idle"
    /\ cmI = 0
    /\ cmTickers = 0
    /\ cmUpdated = 0
    /\ cmExec = [stocks |-> 0, history |-> 0]
    /\ cmDurable = [stocks |-> 0, history |-> 0]

IdleIdem ==
    /\ idDict = <<>>
    /\ idOut = <<>>

EmptyDb == [stocks |-> EmptyTable, history |-> EmptyTable]

IdleMigrate == liteDb = EmptyDb

IdleRest == IdleShortlist /\ IdleCommit /\ IdleIdem /\ IdleMigrate

----------------------------------------------------------------------------
(* The splitter on its own: split_multi_value_fields applied to a dict     *)
(* holding one compound field with a raw text value.                       *)

InitSplit ==
    /\ svRaw \in StringsUpTo(MaxLen)
    /\ svLabel = ""
    /\ svOut = NotRun
    /\ IdleCell
    /\ IdleBatch
    /\ IdleDb
    /\ IdleParse
    /\ IdleApi
    /\ IdleExtract
    /\ IdleRest

SplitField(label) ==
    /\ svLabel = ""
    /\ svLabel' = label
    /\ svOut' = split_multi_value_fields(<<<<label, StrV(svRaw)>>>>)
    /\ UNCHANGED <<svRaw, cellVars, batchVars, dbVars,
                 parseVars, apiVars, extractVars, restVars>>

NextSplit == \E label \in CompoundLabels : SplitField(label)

SpecSplit == InitSplit /\ [][NextSplit]_vars

\* ---- split_multi_value_fields on its own result ----------------------------
\* reprocess_json.py runs split_multi_value_fields on the records of a JSON
\* file, which may have been through it before
MaxFields == 2

IdemKeys ==
    CompoundLabels \cup {"52w_high_pct", "eps_past_3y", "dividend_yield",
                         "price"}

IdemValues ==
    {StrV(<<"5", "-", "5", "%">>), StrV(<<"5", "%", "5", "%">>),
     StrV(<<"5", "(", "5", "%", ")">>), StrV(<<"-", " ", "-">>),
     StrV(<<"x">>), NumV("int", FALSE, 5, 0)}

\* the dicts of at most MaxFields items: no key twice
IdemDicts ==
    {d \in UNION {[1..k -> IdemKeys \X IdemValues] : k \in 1..MaxFields} :
        \A i, j \in 1..Len(d) : d[i][1] = d[j][1] => i = j}

InitIdem ==
    /\ IdleSplit /\ IdleCell /\ IdleBatch /\ IdleDb /\ IdleParse /\ IdleApi
    /\ IdleExtract /\ IdleShortlist /\ IdleCommit /\ IdleMigrate
    /\ idDict \in IdemDicts
    /\ idOut = <<>>

\* fixed.append(split_multi_value_fields(stock))
Reprocess ==
    /\ idOut = <<>>
    /\ idOut' = <<split_multi_value_fields(idDict)>>
    /\ UNCHANGED <<idDict, splitVars, cellVars, batchVars, dbVars, parseVars,
                   apiVars, extractVars, slVars, commitVars,
                   migrateVars>>

\* the same on the record of the file written
ReprocessAgain ==
    /\ Len(idOut) = 1
    /\ ~idOut[1].raised
    /\ idOut' = Append(idOut, split_multi_value_fields(idOut[1].d))
    /\ UNCHANGED <<idDict, splitVars, cellVars, batchVars, dbVars, parseVars,
                   apiVars, extractVars, slVars, commitVars,
                   migrateVars>>

NextIdem == Reprocess \/ ReprocessAgain

SpecIdem == InitIdem /\ [][NextIdem]_vars

----------------------------------------------------------------------------
(* One compound cell through scrape_stock, delivered as two fragments and  *)
(* as the single string made of them.                                      *)

\* a text fragment as get_text(strip=True) gives it: not empty, no blank at
\* either end
Fragments ==
    {f \in StringsUpTo(MaxFragLen) :
        f # <<>> /\ ~IsSpace(f[1]) /\ ~IsSpace(f[Len(f)])}

OnePairPage(key, texts) ==
    [fails |-> FALSE, company |-> CompanyName, table |-> <<<<key, texts>>>>]

InitCell ==
    /\ cellLabel \in CompoundLabels
    /\ cellFrags \in Fragments \X Fragments
    /\ recFrags = NotScraped
    /\ recJoined = NotScraped
    /\ IdleSplit
    /\ IdleBatch
    /\ IdleDb
    /\ IdleParse
    /\ IdleApi
    /\ IdleExtract
    /\ IdleRest

ScrapeFragments ==
    /\ recFrags = NotScraped
    /\ recFrags' = scrape_stock(TickerA, OnePairPage(cellLabel, cellFrags))
    /\ UNCHANGED <<cellLabel, cellFrags, recJoined, splitVars, batchVars, dbVars,
                 parseVars, apiVars, extractVars, restVars>>

ScrapeJoined ==
    /\ recFrags # NotScraped
    /\ recJoined = NotScraped
    /\ recJoined' = scrape_stock(TickerA,
                        OnePairPage(cellLabel, <<cellFrags[1] \o cellFrags[2]>>))
    /\ UNCHANGED <<cellLabel, cellFrags, recFrags, splitVars, batchVars, dbVars,
                 parseVars, apiVars, extractVars, restVars>>

NextCell == ScrapeFragments \/ ScrapeJoined

SpecCell == InitCell /\ [][NextCell]_vars

\* ---- a compound cell whose first fragment is long enough for a grammar ----
MaxMarkLen == 4

MarkupAlphabet == {"5", "-", "%"}

FirstFragments == UNION {[1..k -> MarkupAlphabet] : k \in 1..MaxMarkLen}

SecondFragments == {<<"5">>, <<"5", "%">>, <<"-">>}

InitMarkup ==
    /\ cellLabel \in CompoundLabels
    /\ cellFrags \in FirstFragments \X SecondFragments
    /\ recFrags = NotScraped
    /\ recJoined = NotScraped
    /\ IdleSplit
    /\ IdleBatch
    /\ IdleDb
    /\ IdleParse
    /\ IdleApi
    /\ IdleExtract
    /\ IdleRest

SpecMarkup == InitMarkup /\ [][NextCell]_vars

----------------------------------------------------------------------------
(* scrape_multiple step by step: the call, then each request and each      *)
(* sleep of the loop.                                                      *)

TickerLists == UNION {[1..k -> Tickers] : k \in 0..MaxBatch}

InitBatch ==
    /\ IdleBatch
    /\ IdleSplit
    /\ IdleCell
    /\ IdleDb
    /\ IdleParse
    /\ IdleApi
    /\ IdleExtract
    /\ IdleRest

CallScrapeMultiple(tickers) ==
    /\ smPc = "idle"
    /\ smTickers' = tickers
    /\ smI' = 0
    /\ sm' = EmptyBatch
    /\ smPc' = LoopNext(0, Len(tickers))
    /\ UNCHANGED <<splitVars, cellVars, dbVars,
                 parseVars, apiVars, extractVars, restVars>>

\* lines 224-234 of one turn: the request, the two lists, the test for the
\* sleep
Request(page) ==
    /\ smPc = "request"
    /\ smI' = smI + 1
    /\ sm' = Requested(sm, smTickers[smI + 1],
                       scrape_stock(smTickers[smI + 1], page))
    /\ smPc' = IF SleepNeeded(smI + 1, Len(smTickers)) THEN "sleep"
               ELSE LoopNext(smI + 1, Len(smTickers))
    /\ UNCHANGED <<smTickers, splitVars, cellVars, dbVars,
                 parseVars, apiVars, extractVars, restVars>>

Sleep ==
    /\ smPc = "sleep"
    /\ sm' = Slept(sm)
    /\ smPc' = LoopNext(smI, Len(smTickers))
    /\ UNCHANGED <<smTickers, smI, splitVars, cellVars, dbVars,
                 parseVars, apiVars, extractVars, restVars>>

NextBatch ==
    \/ \E tickers \in TickerLists : CallScrapeMultiple(tickers)
    \/ \E page \in Pages : Request(page)
    \/ Sleep

SpecBatch == InitBatch /\ [][NextBatch]_vars

\* A call that was made runs on: session.get(url, timeout=10) returns or
\* raises, and time.sleep(delay) returns.
SpecBatchLive ==
    /\ SpecBatch
    /\ WF_vars(\E page \in Pages : Request(page))
    /\ WF_vars(Sleep)

----------------------------------------------------------------------------
(* The value parser on its own: _parse_value applied to a token.  The      *)
(* tokens are made of two digits, the decimal point, the thousands comma,  *)
(* the dash, the percent sign and the suffix K (M and B are scaled the     *)
(* same way, with products beyond the integers of the model checker).      *)

MaxTok == 5

ParseAlphabet == {"8", "1", ".", ",", "-", "%", "K"}

Tokens == UNION {[1..k -> ParseAlphabet] : k \in 0..MaxTok}

InitParse ==
    /\ pvToken \in Tokens
    /\ pvOut = NotParsed
    /\ IdleSplit
    /\ IdleCell
    /\ IdleBatch
    /\ IdleDb
    /\ IdleApi
    /\ IdleExtract
    /\ IdleRest

ParseValue ==
    /\ pvOut = NotParsed
    /\ pvOut' = _parse_value(pvToken)
    /\ UNCHANGED <<pvToken, splitVars, cellVars, batchVars, dbVars, apiVars,
                   extractVars, restVars>>

NextParse == ParseValue

SpecParse == InitParse /\ [][NextParse]_vars

\* ---- the name of a field on its way to the frontend -----------------------
\* a record key is written to its column (parse_finviz_key), under its
\* Postgres name on that backend (SQLITE_TO_PG), and read back under the API
\* name (pg_row_to_api); "optionable" is a key the dictionary does not hold
ApiKeys == FinvizLabels \cup {"optionable"}

InitApi ==
    /\ IdleSplit /\ IdleCell /\ IdleBatch /\ IdleDb /\ IdleParse
    /\ IdleExtract
    /\ IdleRest
    /\ apiKey \in ApiKeys
    /\ apiName = <<>>

PgRowToApi ==
    /\ apiName = <<>>
    /\ parse_finviz_key(apiKey) # NoColumn
    /\ apiName' = <<parse_finviz_key(apiKey),
                    SQLITE_TO_PG(parse_finviz_key(apiKey)),
                    ApiName(SQLITE_TO_PG(parse_finviz_key(apiKey)))>>
    /\ UNCHANGED <<apiKey, splitVars, cellVars, batchVars, dbVars,
                   parseVars, extractVars, restVars>>

NextApi == PgRowToApi

SpecApi == InitApi /\ [][NextApi]_vars

\* ---- _extract_cell_texts on its own ---------------------------------------
MaxKids == 3

ChildNames == BlockTagNames \cup {"a", "#text"}

ChildTexts == {<<>>, <<"5">>, <<" ", "%">>}

Cells == UNION {[1..k -> ChildNames \X ChildTexts] : k \in 0..MaxKids}

InitExtract ==
    /\ IdleSplit /\ IdleCell /\ IdleBatch /\ IdleDb /\ IdleParse /\ IdleApi
    /\ IdleRest
    /\ exCell \in Cells
    /\ exTexts = NotExtracted

ExtractCellTexts ==
    /\ exTexts = NotExtracted
    /\ exTexts' = _extract_cell_texts(exCell)
    /\ UNCHANGED <<exCell, splitVars, cellVars, batchVars, dbVars,
                   parseVars, apiVars, restVars>>

NextExtract == ExtractCellTexts

SpecExtract == InitExtract /\ [][NextExtract]_vars

\* ---- the shortlist under requests ------------------------------------------
SlActions == {"add", "remove", "toggle", "keep"}

BulkActions == {"add", "remove", "set"}

SlPrices == {NoneV, NumV("int", FALSE, 1, 0)}

InitShortlist ==
    /\ IdleSplit /\ IdleCell /\ IdleBatch /\ IdleParse /\ IdleApi
    /\ IdleExtract /\ IdleCommit /\ IdleIdem /\ IdleMigrate
    /\ backend \in {"sqlite", "postgres"}
    /\ stocks = EmptyTable
    /\ history = EmptyTable
    /\ today = 1
    /\ runs = 0
    /\ op = "none"
    /\ files = NoFiles
    /\ IdleShortlist

Responded(result) ==
    /\ shortlist' = result.saved
    /\ slResp' = result.response
    /\ slPrev' = slResp

ShortlistUpdate(ticker, action, price) ==
    /\ Responded(api_shortlist_update(backend, shortlist, ticker, action,
                                      price))
    /\ UNCHANGED <<splitVars, cellVars, batchVars, dbVars, parseVars, apiVars,
                   extractVars, commitVars, idemVars,
                   migrateVars>>

ShortlistBulk(tickers, action) ==
    /\ Responded(api_shortlist_bulk(backend, shortlist, tickers, action))
    /\ UNCHANGED <<splitVars, cellVars, batchVars, dbVars, parseVars, apiVars,
                   extractVars, commitVars, idemVars,
                   migrateVars>>

ShortlistGet ==
    /\ Responded([saved |-> shortlist,
                  response |-> api_shortlist_get(backend, shortlist)])
    /\ UNCHANGED <<splitVars, cellVars, batchVars, dbVars, parseVars, apiVars,
                   extractVars, commitVars, idemVars,
                   migrateVars>>

NextShortlist ==
    \/ \E ticker \in Tickers, action \in SlActions, price \in SlPrices :
          ShortlistUpdate(ticker, action, price)
    \/ \E tickers \in TickerLists, action \in BulkActions :
          ShortlistBulk(tickers, action)
    \/ ShortlistGet

SpecShortlist == InitShortlist /\ [][NextShortlist]_vars

\* ---- update_sqlite / update_postgres record by record, with their commits --
\* The two functions have the same loop: a record without ticker is passed
\* over; for the others the stocks write is executed, then the history
\* write, then updated is counted and, every COMMIT_EVERY records, a commit
\* issued; one more commit follows the loop.
MaxRecords == 201

COMMIT_EVERY == 100

CommitAlways(updated) == TRUE

\* if updated % 100 == 0: conn.commit()
CommitDue(updated) == updated % COMMIT_EVERY = 0

InitCommit ==
    /\ IdleSplit /\ IdleCell /\ IdleBatch /\ IdleParse /\ IdleApi
    /\ IdleExtract /\ IdleShortlist /\ IdleIdem /\ IdleMigrate
    /\ backend \in {"sqlite", "postgres"}
    /\ stocks = EmptyTable
    /\ history = EmptyTable
    /\ today = 1
    /\ runs = 0
    /\ op = "none"
    /\ files = NoFiles
    /\ cmPc = "ticker"
    /\ cmI = 0
    /\ cmTickers = 0
    /\ cmUpdated = 0
    /\ cmExec = [stocks |-> 0, history |-> 0]
    /\ cmDurable = [stocks |-> 0, history |-> 0]

\* for stock in stocks: ticker = stock.get('ticker'); if not ticker: continue
TakeRecord(has_ticker) ==
    /\ cmPc = "ticker"
    /\ cmI < MaxRecords
    /\ cmI' = cmI + 1
    /\ cmTickers' = IF has_ticker THEN cmTickers + 1 ELSE cmTickers
    /\ cmPc' = IF has_ticker THEN "stocks" ELSE "ticker"
    /\ UNCHANGED <<cmUpdated, cmExec, cmDurable>>
    /\ UNCHANGED <<splitVars, cellVars, batchVars, dbVars, parseVars, apiVars,
                   extractVars, slVars, idemVars,
                   migrateVars>>

\* the execute of the INSERT into stocks
ExecStocks ==
    /\ cmPc = "stocks"
    /\ cmExec' = [cmExec EXCEPT !.stocks = @ + 1]
    /\ cmPc' = "history"
    /\ UNCHANGED <<cmI, cmTickers, cmUpdated, cmDurable>>
    /\ UNCHANGED <<splitVars, cellVars, batchVars, dbVars, parseVars, apiVars,
                   extractVars, slVars, idemVars,
                   migrateVars>>

\* the execute of the INSERT into stock_history
ExecHistory ==
    /\ cmPc = "history"
    /\ cmExec' = [cmExec EXCEPT !.history = @ + 1]
    /\ cmPc' = "count"
    /\ UNCHANGED <<cmI, cmTickers, cmUpdated, cmDurable>>
    /\ UNCHANGED <<splitVars, cellVars, batchVars, dbVars, parseVars, apiVars,
                   extractVars, slVars, idemVars,
                   migrateVars>>

\* updated += 1; if updated % 100 == 0: conn.commit()
CountUpdated ==
    /\ cmPc = "count"
    /\ cmUpdated' = cmUpdated + 1
    /\ cmDurable' = IF CommitDue(cmUpdated + 1) THEN cmExec ELSE cmDurable
    /\ cmPc' = "ticker"
    /\ UNCHANGED <<cmI, cmTickers, cmExec>>
    /\ UNCHANGED <<splitVars, cellVars, batchVars, dbVars, parseVars, apiVars,
                   extractVars, slVars, idemVars,
                   migrateVars>>

\* the list is at its end: conn.commit(); conn.close(); return updated
LastCommit ==
    /\ cmPc = "ticker"
    /\ cmDurable' = cmExec
    /\ cmPc' = "done"
    /\ UNCHANGED <<cmI, cmTickers, cmUpdated, cmExec>>
    /\ UNCHANGED <<splitVars, cellVars, batchVars, dbVars, parseVars, apiVars,
                   extractVars, slVars, idemVars,
                   migrateVars>>

NextCommit ==
    \/ \E has_ticker \in BOOLEAN : TakeRecord(has_ticker)
    \/ ExecStocks
    \/ ExecHistory
    \/ CountUpdated
    \/ LastCommit

SpecCommit == InitCommit /\ [][NextCommit]_vars

----------------------------------------------------------------------------
(* The database under runs of load_data, migrate and the refresh pass      *)
(* main of cron_scrape.py.  A run happens on the day of the run before it  *)
(* or on the next day.  On the SQLite backend load_data fills the          *)
(* database in use; on the Postgres backend load_data fills a stocks.db    *)
(* of its own, which migrate then copies into the database in use.         *)

\* StockSource.csv lists both tickers; the stocks list of a stock_data.json
\* is what scrape_multiple returned for them
JsonFiles ==
    {scrape_multiple(TickerOrder, pages).results :
        pages \in [1..Len(TickerOrder) -> Pages]}

Init ==
    /\ backend \in {"sqlite", "postgres"}
    /\ stocks = EmptyTable
    /\ history = EmptyTable
    /\ today = 1
    /\ runs = 0
    /\ op = "none"
    /\ files = NoFiles
    /\ IdleBatch
    /\ IdleSplit
    /\ IdleCell
    /\ IdleParse
    /\ IdleApi
    /\ IdleExtract
    /\ IdleRest

\* the tables of the database in use become those of db
Written(db) ==
    /\ stocks' = db.stocks
    /\ history' = db.history

LoadData(d, json) ==
    /\ backend = "sqlite"
    /\ runs < MaxRuns
    /\ Written(load_data([stocks |-> stocks, history |-> history], json, 1, d))
    /\ today' = d
    /\ runs' = runs + 1
    /\ op' = "load_data"
    /\ UNCHANGED <<backend, files, batchVars, splitVars, cellVars,
                 parseVars, apiVars, extractVars, restVars>>

Migrate(d, json) ==
    /\ backend = "postgres"
    /\ runs < MaxRuns
    /\ Written(migrate([stocks |-> stocks, history |-> history],
                       load_data([stocks |-> EmptyTable, history |-> EmptyTable], json, 1, d)))
    /\ today' = d
    /\ runs' = runs + 1
    /\ op' = "migrate"
    /\ UNCHANGED <<backend, files, batchVars, splitVars, cellVars,
                 parseVars, apiVars, extractVars, restVars>>

\* if USE_POSTGRES: update_postgres(results) else: update_sqlite(results)
Updated(db, results, d) ==
    IF backend = "postgres" THEN update_postgres(db, results, 1, d)
    ELSE update_sqlite(db, results, 1, d)

\* with open(name, 'w') as f: json.dump(content, f)
Saved(fs, name, content) ==
    [x \in DOMAIN fs \cup {name} |-> IF x = name THEN content ELSE fs[x]]

OUTPUT_JSON == "stock_data_latest.json"

\* the JSON backup of main, without its two timestamps
Backup(tickers, st) ==
    [total_stocks |-> Len(tickers), successful |-> Len(st.results),
     stocks |-> st.results]

\* main with tickers in the database: the scrape of all of them, the JSON
\* backup, then the update
MainScraped(d, tickers, st) ==
    /\ smTickers' = tickers
    /\ smI' = Len(tickers)
    /\ smPc' = "done"
    /\ sm' = st
    /\ files' = Saved(files, OUTPUT_JSON, Backup(tickers, st))
    /\ Written(Updated([stocks |-> stocks, history |-> history], st.results, d))

Main(d, pages) ==
    /\ runs < MaxRuns
    /\ get_tickers(stocks) # <<>>
    /\ MainScraped(d, get_tickers(stocks),
                   scrape_multiple(get_tickers(stocks), pages))
    /\ today' = d
    /\ runs' = runs + 1
    /\ op' = "main"
    /\ UNCHANGED <<backend, splitVars, cellVars,
                 parseVars, apiVars, extractVars, restVars>>

\* if not tickers: sys.exit(1)
MainExit(d) ==
    /\ runs < MaxRuns
    /\ get_tickers(stocks) = <<>>
    /\ today' = d
    /\ runs' = runs + 1
    /\ op' = "exit"
    /\ UNCHANGED <<backend, stocks, history, files, batchVars, splitVars, cellVars,
                 parseVars, apiVars, extractVars, restVars>>

\* load_csv: StockSource.csv as scrape_all finds it, with ticker A, or with
\* no ticker (or not to be read)
CsvFiles == {<<>>, <<TickerA>>}

\* a list of tickers that is all right to begin with
AnyTickers(tickers) == TRUE

\* `if not tickers: return`
HasTickers(tickers) == tickers # <<>>

\* the JSON artifact of scrape_all, without its two timestamps
Artifact(tickers, st) ==
    [total_stocks |-> Len(tickers), successful |-> Len(st.results),
     affiliates_skipped |-> Len(st.affiliates),
     failed |-> Len(tickers) - Len(st.results) - Len(st.affiliates),
     stocks |-> st.results]

\* if affiliates: with open('affiliates_skipped.txt', 'w') as f: ...
SkippedSaved(fs, affiliates) ==
    IF affiliates # <<>> THEN Saved(fs, "affiliates_skipped.txt", affiliates)
    ELSE fs

\* scrape_all that finds no ticker in the CSV file and returns
ScrapeAllNoTickers(tickers) ==
    /\ runs < MaxRuns
    /\ ~HasTickers(tickers)
    /\ runs' = runs + 1
    /\ op' = "no_tickers"
    /\ UNCHANGED <<backend, stocks, history, today, files, batchVars,
                   splitVars, cellVars, parseVars, apiVars, extractVars, restVars>>

\* scrape_all whose question "Continue? (y/n)" is not answered with y
ScrapeAllCancelled(tickers) ==
    /\ runs < MaxRuns
    /\ HasTickers(tickers)
    /\ runs' = runs + 1
    /\ op' = "cancelled"
    /\ UNCHANGED <<backend, stocks, history, today, files, batchVars,
                   splitVars, cellVars, parseVars, apiVars, extractVars, restVars>>

ScrapeAllScraped(tickers, st) ==
    /\ smTickers' = tickers
    /\ smI' = Len(tickers)
    /\ smPc' = "done"
    /\ sm' = st
    /\ files' = SkippedSaved(Saved(files, "stock_data.json",
                                   Artifact(tickers, st)),
                             st.affiliates)

\* scrape_all that scrapes the tickers and writes its files
ScrapeAll(tickers, pages) ==
    /\ runs < MaxRuns
    /\ HasTickers(tickers)
    /\ ScrapeAllScraped(tickers, scrape_multiple(tickers, pages))
    /\ runs' = runs + 1
    /\ op' = "scrape_all"
    /\ UNCHANGED <<backend, stocks, history, today, splitVars, cellVars,
                   parseVars, apiVars, extractVars, restVars>>

\* the days the next run can happen on
RunDays == {today, today + 1}

Next ==
    \/ \E d \in RunDays, json \in JsonFiles : LoadData(d, json)
    \/ \E d \in RunDays, json \in JsonFiles : Migrate(d, json)
    \/ \E d \in RunDays, pages \in [1..Len(get_tickers(stocks)) -> Pages] :
           Main(d, pages)
    \/ \E d \in RunDays : MainExit(d)
    \/ \E tickers \in CsvFiles : ScrapeAllNoTickers(tickers)
    \/ \E tickers \in CsvFiles : ScrapeAllCancelled(tickers)
    \/ \E tickers \in CsvFiles :
           \E pages \in [1..Len(tickers) -> Pages] : ScrapeAll(tickers, pages)

Spec == Init /\ [][Next]_vars

\* ---- one record through an upsert, into an empty database -----------------
\* the record keys that parse_finviz_key writes to a column the history
\* table has too
SnapshotKeys == {k \in FinvizLabels : parse_finviz_key(k) \in HistoryColumns}

SnapshotValues == {NumV("int", FALSE, 0, 0), NumV("int", FALSE, 5, 0)}

SnapshotRecord(key, value) ==
    <<<<"ticker", StrV(TickerA)>>, <<"company_name", StrV(CompanyName)>>,
      <<key, value>>>>

InitSnapshot ==
    /\ IdleSplit /\ IdleCell /\ IdleBatch /\ IdleParse /\ IdleApi
    /\ IdleExtract /\ IdleRest
    /\ backend \in {"sqlite", "postgres"}
    /\ stocks = EmptyTable
    /\ history = EmptyTable
    /\ today = 1
    /\ runs = 0
    /\ op = "none"
    /\ files = NoFiles

\* update_sqlite or update_postgres on the one record
SnapshotUpdate(key, value) ==
    /\ runs = 0
    /\ Written(Updated([stocks |-> stocks, history |-> history],
                       <<SnapshotRecord(key, value)>>, today))
    /\ runs' = 1
    /\ op' = "main"
    /\ UNCHANGED <<backend, today, files, batchVars, splitVars, cellVars,
                   parseVars, apiVars, extractVars, restVars>>

\* load_data on a JSON file with the one record
SnapshotLoad(key, value) ==
    /\ runs = 0
    /\ backend = "sqlite"
    /\ Written(load_data([stocks |-> stocks, history |-> history],
                         <<SnapshotRecord(key, value)>>, 1, today))
    /\ runs' = 1
    /\ op' = "load_data"
    /\ UNCHANGED <<backend, today, files, batchVars, splitVars, cellVars,
                   parseVars, apiVars, extractVars, restVars>>

NextSnapshot ==
    \/ \E key \in SnapshotKeys, value \in SnapshotValues :
          SnapshotUpdate(key, value)
    \/ \E key \in SnapshotKeys, value \in SnapshotValues :
          SnapshotLoad(key, value)

SpecSnapshot == InitSnapshot /\ [][NextSnapshot]_vars

----------------------------------------------------------------------------
(* migrate on its own: load_data fills stocks.db record by record, and     *)
(* migrate copies what stocks.db holds into the Postgres database.         *)

MigrateKeys == {"profit_margin", "price", "52w_high_pct"}

\* -0.1394, 5.45 and 5
MigrateValues ==
    {NumV("float", TRUE, 1394, 4), NumV("float", FALSE, 545, 2),
     NumV("int", FALSE, 5, 0)}

MigrateDates == {1, 2}

MigrateRecord(ticker, key, value) ==
    <<<<"ticker", StrV(ticker)>>, <<"company_name", StrV(CompanyName)>>,
      <<key, value>>>>

InitMigrate ==
    /\ IdleSplit /\ IdleCell /\ IdleBatch /\ IdleParse /\ IdleApi
    /\ IdleExtract /\ IdleShortlist /\ IdleCommit /\ IdleIdem
    /\ liteDb = EmptyDb
    /\ backend = "postgres"
    /\ stocks = EmptyTable
    /\ history = EmptyTable
    /\ today = 1
    /\ runs = 0
    /\ op = "none"
    /\ files = NoFiles

\* load_data on a JSON file with the one record, into stocks.db
FillSqlite(ticker, key, value, d) ==
    /\ runs < MaxRuns
    /\ liteDb' = load_data(liteDb, <<MigrateRecord(ticker, key, value)>>, 1, d)
    /\ today' = d
    /\ runs' = runs + 1
    /\ op' = "load_data"
    /\ UNCHANGED <<backend, stocks, history, files, batchVars, splitVars,
                   cellVars, parseVars, apiVars, extractVars, slVars,
                   commitVars, idemVars>>

\* migrate('stocks.db', postgres_url)
MigrateSqlite ==
    /\ Written(migrate([stocks |-> stocks, history |-> history], liteDb))
    /\ op' = "migrate"
    /\ UNCHANGED <<backend, today, runs, files, liteDb, batchVars, splitVars,
                   cellVars, parseVars, apiVars, extractVars, slVars,
                   commitVars, idemVars>>

NextMigrate ==
    \/ \E ticker \in Tickers, key \in MigrateKeys, value \in MigrateValues,
          d \in MigrateDates : FillSqlite(ticker, key, value, d)
    \/ MigrateSqlite

SpecMigrate == InitMigrate /\ [][NextMigrate]_vars

----------------------------------------------------------------------------
(* Properties of the splitter (SpecSplit) *)

TwoPctLabels == {k \in CompoundLabels : Family(k) = "two_pcts"}

\* the raw text matches the grammar of the label
Accepts(label, raw) ==
    CASE Family(label) = "52w"          -> Re52wCut(Strip(raw)) > 0
      [] Family(label) = "two_pcts"     -> Len(FindTokens(Strip(raw), 1)) = 2
      [] Family(label) = "dividend_amt" -> ReDivAmtCut(Strip(raw))[1] > 0

SplitDone == svLabel # ""

\* C5: a raw string that does not match the grammar of its compound label
\* (for the dual-percentage labels: a token count other than two) is stored
\* unchanged under the primary key, and nothing else is emitted.
C5_UnsplittableKeptVerbatim ==
    (SplitDone /\ ~Accepts(svLabel, svRaw)) =>
        svOut = [raised |-> FALSE,
                 d |-> <<<<PrimaryKey(svLabel), StrV(svRaw)>>>>]

C5_Witness ==
    /\ svLabel = "volatility"
    /\ Len(FindTokens(Strip(svRaw), 1)) = 3
    /\ svOut.d = <<<<"volatility_week", StrV(svRaw)>>>>

\* a slot of the dual-percentage grammar: a signed percentage or a lone dash
IsSlot(t) == t = <<"-">> \/ IsPctToken(t)

SlotCuts(raw) ==
    {k \in 1..(Len(raw) - 1) :
        IsSlot(Sub(raw, 1, k)) /\ IsSlot(Sub(raw, k + 1, Len(raw)))}

SlotValue(t) ==
    IF t = <<"-">> THEN NoneV ELSE Div100(PyFloat(Remove(t, "%")))

SlotsExpected(label, raw, k) ==
    LET one == <<<<PrimaryKey(label), SlotValue(Sub(raw, 1, k))>>>>
        second == Sub(raw, k + 1, Len(raw))
    IN  [raised |-> FALSE,
         d |-> IF second = <<"-">> THEN one
               ELSE Append(one, <<SecondaryKey(label), SlotValue(second)>>)]

\* C6 (as claimed): a dual-percentage raw string made of two slots is
\* resolved slot by slot, a percentage giving number/100 and a dash an
\* absent value, the secondary key omitted when its slot is the dash.
C6_SlotsResolvedIndependently ==
    (SplitDone /\ svLabel \in TwoPctLabels) =>
        \A k \in SlotCuts(svRaw) : svOut = SlotsExpected(svLabel, svRaw, k)

\* C7 (as claimed): the primary value stored for a raw string that matches
\* the grammar of its label is never None.
C7_PrimaryNeverNone ==
    (SplitDone /\ Accepts(svLabel, svRaw)
        /\ DictHas(svOut.d, PrimaryKey(svLabel))) =>
        DictGet(svOut.d, PrimaryKey(svLabel)) # NoneV

\* C7 (amended): the primary value stored for a matching raw string is None
\* exactly when the label is a dual-percentage label and the first of the
\* two tokens is the placeholder dash.
C7_PrimaryNoneOnlyForDashSlot ==
    (SplitDone /\ Accepts(svLabel, svRaw)
        /\ DictHas(svOut.d, PrimaryKey(svLabel))) =>
        (DictGet(svOut.d, PrimaryKey(svLabel)) = NoneV
            <=> (/\ svLabel \in TwoPctLabels
                 /\ FindTokens(Strip(svRaw), 1)[1] = <<"-">>))

C7_Witness ==
    /\ svLabel = "eps_past_3_5y"
    /\ svRaw = <<"-", " ", "-">>
    /\ svOut = [raised |-> FALSE, d |-> <<<<"eps_past_3y", NoneV>>>>]

\* the two groups of the anchored grammar of the label, for a raw string
\* that matches it
AnchoredGroups(label, raw) ==
    LET u == Strip(raw)
    IN  IF Family(label) = "52w"
        THEN <<Sub(u, 1, Re52wCut(u)),
               Remove(Sub(u, Re52wCut(u) + 1, Len(u)), "%")>>
        ELSE <<Sub(u, 1, ReDivAmtCut(u)[1]),
               Sub(u, ReDivAmtCut(u)[2], ReDivAmtCut(u)[3])>>

\* C9 (as claimed): every raw string matching an anchored grammar is split
\* into the leading number under the primary key and the percentage divided
\* by 100 under the secondary key.
C9_AnchoredSplitGivesNumbers ==
    (SplitDone /\ svLabel \notin TwoPctLabels /\ Accepts(svLabel, svRaw)) =>
        /\ ~svOut.raised
        /\ svOut.d =
             <<<<PrimaryKey(svLabel),
                 PyFloat(AnchoredGroups(svLabel, svRaw)[1])>>,
               <<SecondaryKey(svLabel),
                 Div100(PyFloat(AnchoredGroups(svLabel, svRaw)[2]))>>>>

----------------------------------------------------------------------------
(* Properties of the value parser (SpecParse).  Every conversion of        *)
(* _parse_value that can raise stands inside a try with a bare except, and *)
(* the tests before them ('%' in value, value[-1] on a non-empty text) do  *)
(* not raise on a text: what is left to check is what it returns.          *)

ParseDone == pvOut # NotParsed

\* a decimal numeral: digits with at most one point, after an optional '-'
IsNumeral(token) == IsDecimalBody(Unsigned(token))

(* C12: for every token _parse_value returns None, a number or the token   *)
(* itself: None exactly for the empty text and the placeholder dash, a     *)
(* number for every decimal numeral, and otherwise a number or the         *)
(* original text unchanged.                                                *)
C12_NoneNumberOrText ==
    ParseDone =>
        /\ pvOut = NoneV <=> pvToken \in {<<>>, <<"-">>}
        /\ pvOut # NoneV => (IsNum(pvOut) \/ pvOut = StrV(pvToken))
        /\ IsNumeral(pvToken) => IsNum(pvOut)

\* a token with two decimal points comes back as it was given
C12_Witness ==
    /\ pvToken = <<"-", "8", ".", "1", ".">>
    /\ pvOut = StrV(pvToken)

EndsWith(token, c) == token # <<>> /\ token[Len(token)] = c

\* the token without its last character
Prefix(token) == Sub(token, 1, Len(token) - 1)

(* C13 (as claimed): a token is a percentage exactly when it ends with     *)
(* '%': it then gives its numeric prefix divided by 100, or the original   *)
(* text when the prefix is not a number; a token with a '%' that is not    *)
(* its last character is not divided by 100 and comes back as text.        *)
C13_PercentOnlyWhenTrailing ==
    ParseDone =>
        /\ EndsWith(pvToken, "%") =>
              pvOut = IF TryFloat(Prefix(pvToken)).ok
                      THEN Div100(TryFloat(Prefix(pvToken)).v)
                      ELSE StrV(pvToken)
        /\ (HasChar(pvToken, "%") /\ ~EndsWith(pvToken, "%")) =>
              pvOut = StrV(pvToken)

\* prefix * m, cut to an integer, in exact arithmetic
ExactScaled(num, m) ==
    NumV("int", num.neg, (num.mant * m) \div Pow10(num.scale), 0)

(* C14 (as claimed): a token with a magnitude suffix and a numeric prefix  *)
(* gives the integer that is the prefix times the multiplier of the        *)
(* suffix, truncated; with a prefix that is not a number it gives the      *)
(* original text.                                                          *)
C14_SuffixScalesExactly ==
    (ParseDone /\ EndsWith(pvToken, "K")) =>
        pvOut = IF TryFloat(Prefix(pvToken)).ok
                THEN ExactScaled(TryFloat(Prefix(pvToken)).v, Multiplier("K"))
                ELSE StrV(pvToken)

----------------------------------------------------------------------------
(* Properties of a compound cell through scrape_stock (SpecCell) *)

\* the (key, value) pair a record holds for key k, or <<k, "absent">>
FieldOf(rec, k) ==
    IF rec.ok /\ DictHas(rec.d, k) THEN <<k, "present", DictGet(rec.d, k)>>
    ELSE <<k, "absent", NoneV>>

SameField(a, b, k) ==
    /\ FieldOf(a, k)[2] = FieldOf(b, k)[2]
    /\ PyEq(FieldOf(a, k)[3], FieldOf(b, k)[3])

\* C8 (as claimed): when the concatenation of the two fragments matches the
\* grammar of the label, the record built from the fragments and the record
\* built from the concatenated string hold the same primary and secondary
\* fields (same keys present, equal values).
C8_FragmentsAgreeWithJoined ==
    (/\ recFrags # NotScraped
     /\ recJoined # NotScraped
     /\ Accepts(cellLabel, cellFrags[1] \o cellFrags[2])) =>
        /\ recFrags.ok = recJoined.ok
        /\ SameField(recFrags, recJoined, PrimaryKey(cellLabel))
        /\ SameField(recFrags, recJoined, SecondaryKey(cellLabel))

\* a text made only of placeholder dashes
OnlyDashes(t) == t # <<>> /\ \A i \in 1..Len(t) : t[i] = "-"

NotEmitted(rec, label) ==
    /\ rec.ok
    /\ FieldOf(rec, PrimaryKey(label))[2] = "absent"
    /\ FieldOf(rec, SecondaryKey(label))[2] = "absent"

(* C19 (as claimed): a value cell made only of placeholder dashes gives no *)
(* field: the primary and the secondary key of its compound label are      *)
(* absent from the record, whether the cell comes as two fragments or as   *)
(* one text.                                                               *)
C19_DashCellNotEmitted ==
    /\ (recFrags # NotScraped
          /\ OnlyDashes(cellFrags[1]) /\ OnlyDashes(cellFrags[2])) =>
            NotEmitted(recFrags, cellLabel)
    /\ (recJoined # NotScraped
          /\ OnlyDashes(cellFrags[1] \o cellFrags[2])) =>
            NotEmitted(recJoined, cellLabel)

(* C23 (as claimed): for a compound label whose cell comes as two          *)
(* fragments (not both the placeholder dash), the record holds              *)
(* _parse_value of the first fragment under the primary key and             *)
(* _parse_value of the second under the secondary key: no splitter has      *)
(* changed either value, the post-processing pass included.                 *)
C23_FragmentsStoredAsParsed ==
    (recFrags # NotScraped
        /\ ~(cellFrags[1] = <<"-">> /\ cellFrags[2] = <<"-">>)) =>
        /\ recFrags.ok
        /\ FieldOf(recFrags, PrimaryKey(cellLabel)) =
              <<PrimaryKey(cellLabel), "present", _parse_value(cellFrags[1])>>
        /\ FieldOf(recFrags, SecondaryKey(cellLabel)) =
              <<SecondaryKey(cellLabel), "present",
                _parse_value(cellFrags[2])>>

\* no key of the record is mapped to None
NoNullField(rec) == rec.ok => \A i \in 1..Len(rec.d) : rec.d[i][2] # NoneV

(* C29 (as claimed): no record that scrape_stock returns maps a key to a   *)
(* null value, for a compound cell delivered as one raw string as for one  *)
(* delivered as fragments of which one is the placeholder dash.            *)
C29_NoNullInRecord ==
    /\ recFrags # NotScraped => NoNullField(recFrags)
    /\ recJoined # NotScraped => NoNullField(recJoined)

----------------------------------------------------------------------------
(* Properties of scrape_multiple (SpecBatch) *)

\* the turns done so far whose scrape_stock call ended with the outcome why
TurnsWith(why) ==
    SelectSeq([k \in 1..Len(sm.outcome) |-> k], LAMBDA k : sm.outcome[k] = why)

\* the tickers of those turns, in the order of the turns
TickersWith(why) ==
    [j \in 1..Len(TurnsWith(why)) |-> smTickers[TurnsWith(why)[j]]]

ResultTickers == [j \in 1..Len(sm.results) |-> Get(sm.results[j], "ticker").s]

(* C1: scrape_multiple tells an affiliate skip apart from a failure: the   *)
(* skipped-tickers list holds the tickers whose page carried the affiliate *)
(* name and no other, the successful records are those of the tickers that *)
(* gave a record, and a ticker whose fetch or parse raised is in neither.  *)
C1_FailureInNeitherList ==
    /\ sm.affiliates = TickersWith("affiliate")
    /\ ResultTickers = TickersWith("record")

Count(log, e) == Cardinality({k \in 1..Len(log) : log[k] = e})

(* C10: scrape_multiple handles one ticker at a time and sleeps between    *)
(* consecutive requests only: requests and sleeps alternate, starting with *)
(* a request; when the call returns, n tickers have had n requests and     *)
(* max(n-1, 0) sleeps, and the last event is a request, whatever the       *)
(* outcome of each ticker.                                                 *)
C10_DelaysBetweenRequestsOnly ==
    /\ \A k \in 1..Len(sm.log) :
          sm.log[k] = IF k % 2 = 1 THEN "request" ELSE "sleep"
    /\ Count(sm.log, "request") = Len(sm.outcome)
    /\ smPc = "done" =>
          /\ Count(sm.log, "request") = Len(smTickers)
          /\ Count(sm.log, "sleep") =
                IF Len(smTickers) = 0 THEN 0 ELSE Len(smTickers) - 1
          /\ Len(sm.log) > 0 => sm.log[Len(sm.log)] = "request"

\* a call on three tickers has returned: one gave a record, one was an
\* affiliate, one raised; two sleeps were made
C10_Witness ==
    /\ smPc = "done"
    /\ Len(smTickers) = 3
    /\ {sm.outcome[k] : k \in 1..Len(sm.outcome)} =
          {"record", "affiliate", "exception"}
    /\ Count(sm.log, "sleep") = 2

(* C11: the successful records are in the order of their tickers in the    *)
(* input, one record for each successful scrape and none dropped as a      *)
(* duplicate: the j-th record is the one of the j-th turn that gave a      *)
(* record, so a ticker given k times and scraped k times appears k times.  *)
C11_SuccessesInInputOrder ==
    /\ Len(sm.results) = Len(TurnsWith("record"))
    /\ \A j \in 1..Len(sm.results) :
          Get(sm.results[j], "ticker").s = smTickers[TurnsWith("record")[j]]

\* a call on A, B, A has returned three records, of A, B and A
C11_Witness ==
    /\ smPc = "done"
    /\ smTickers = <<TickerA, TickerB, TickerA>>
    /\ ResultTickers = smTickers

\* the ticker of the k-th turn, as the two lists tell it: a turn that gave a
\* record put it in results, any other turn put its ticker in affiliates
AttemptedAt(k) ==
    IF sm.outcome[k] = "record"
    THEN ResultTickers[Cardinality({j \in 1..k : sm.outcome[j] = "record"})]
    ELSE sm.affiliates[Cardinality({j \in 1..k : sm.outcome[j] # "record"})]

Attempted == [k \in 1..Len(sm.outcome) |-> AttemptedAt(k)]

(* C17: no outcome of a ticker stops the batch: a call of scrape_multiple  *)
(* that has begun its loop returns, having attempted each ticker of the    *)
(* input once, in the order of the input, also when the fetch or the parse *)
(* of an earlier ticker raised.                                            *)
C17_BatchRunsToTheEnd ==
    (smPc \in {"request", "sleep"}) ~> (smPc = "done" /\ Attempted = smTickers)

\* a call on three tickers has returned although the first two requests
\* raised
C17_Witness ==
    /\ smPc = "done"
    /\ Len(smTickers) = 3
    /\ sm.outcome[1] = "exception"
    /\ sm.outcome[2] = "exception"
    /\ Attempted = smTickers

----------------------------------------------------------------------------
(* Properties of the database (Spec) *)

(* C2: history is append-only under every run of load_data, migrate and    *)
(* main: a history row that exists for a (ticker, date) is still there     *)
(* after every step, with the same values.  (That a (ticker, date) has at  *)
(* most one row is UNIQUE(ticker, date), which the table as a function of  *)
(* the key states.)                                                        *)
C2_HistoryAppendOnly ==
    [][\A k \in DOMAIN history :
          k \in DOMAIN history' /\ history'[k] = history[k]]_vars

\* ticker A was upserted twice on one day with two prices: its history row
\* of the day holds the first price, its current row the second
C2_Witness ==
    /\ runs = 2
    /\ TickerA \in DOMAIN stocks
    /\ <<TickerA, today>> \in DOMAIN history
    /\ "price" \in DOMAIN stocks[TickerA]
    /\ "price" \in DOMAIN history[<<TickerA, today>>]
    /\ stocks[TickerA]["price"] # history[<<TickerA, today>>]["price"]
    /\ stocks[TickerA]["last_updated"] = DateTimeV(today)

\* the column list the refresh pass binds for record r on the backend
BoundColumns(r) ==
    IF backend = "postgres" THEN PgColumns(KeyColumns(r, today), r, 1)
    ELSE SqliteColumns(KeyColumns(r, today), r, 1)

Cell(row, c) == IF c \in DOMAIN row THEN row[c] ELSE NoneV

\* row holds what whole holds in every column but the ticker's
\* classification by industry and sector
SameData(row, whole) ==
    \A c \in (DOMAIN row \cup DOMAIN whole) \ {"industry", "sector"} :
        Cell(row, c) = Cell(whole, c)

(* C3: the current-state upsert replaces the whole row on both backends:   *)
(* after a refresh pass, the row of every ticker that gave a record r      *)
(* holds r's value in every column r supplies and NULL in every other data *)
(* column, whatever the row held before.                                   *)
C3_UpsertReplacesWholeRow ==
    op = "main" =>
        \A j \in 1..Len(sm.results) :
            SameData(stocks[Get(sm.results[j], "ticker").s],
                     RowOf(BoundColumns(sm.results[j])))

(* C4: a ticker whose scrape gives no record (a failure or an affiliate    *)
(* skip) is not written by the refresh pass: its current-state row is      *)
(* after the pass what it was before, and no refresh pass removes a row    *)
(* from the current-state table.                                           *)
C4_NoRecordNoWrite ==
    [][(op' \in {"main", "exit"} /\ runs' # runs) =>
          /\ DOMAIN stocks \subseteq DOMAIN stocks'
          /\ op' = "main" =>
                \A k \in 1..Len(smTickers') :
                    sm'.outcome[k] # "record" =>
                        stocks'[smTickers'[k]] = stocks[smTickers'[k]]]_vars

\* a refresh pass on the day after the load: the request for ticker A
\* raised and its row is still the one of the day before, ticker B gave a
\* record and its row is of today
C4_Witness ==
    /\ op = "main"
    /\ smTickers = <<TickerA, TickerB>>
    /\ sm.outcome = <<"exception", "record">>
    /\ stocks[TickerA]["last_updated"] # DateTimeV(today)
    /\ stocks[TickerB]["last_updated"] = DateTimeV(today)

\* the column the refresh pass writes key k to, on the backend
Column(k) ==
    IF backend = "postgres" THEN SQLITE_TO_PG(parse_finviz_key(k))
    ELSE parse_finviz_key(k)

\* the items of record r whose key the dictionary knows
KnownItems(r) ==
    {i \in 1..Len(r) :
        r[i][1] \notin SkippedKeys /\ parse_finviz_key(r[i][1]) # NoColumn}

\* the columns the upsert leaves as they were: none under INSERT OR REPLACE
KeptColumns(table, t) ==
    IF backend = "postgres" /\ t \in DOMAIN table THEN DOMAIN table[t] ELSE {}

\* row is what the pass wrote for record r on day d over the columns Kept
WrittenWithoutUnknown(row, r, d, Kept) ==
    /\ row["last_updated"] = DateTimeV(d)
    /\ DOMAIN row \subseteq
          Kept \cup {"company_name", "last_updated"}
               \cup {Column(r[i][1]) : i \in KnownItems(r)}
    /\ \A i \in KnownItems(r) :
          clean_value(r[i][2]) # NoneV =>
              /\ Column(r[i][1]) \in DOMAIN row
              /\ row[Column(r[i][1])] = clean_value(r[i][2])

(* C15: a record key that the label-to-column dictionary does not hold is  *)
(* dropped without error: the row the refresh pass writes for the record   *)
(* has no column for it, the record's other fields are in the row, and the *)
(* record is written like any other (its row carries the day of the pass). *)
C15_UnknownKeyDropped ==
    [][(op' = "main" /\ runs' # runs) =>
          \A j \in 1..Len(sm'.results) :
              /\ Get(sm'.results[j], "ticker").s \in DOMAIN stocks'
              /\ WrittenWithoutUnknown(
                     stocks'[Get(sm'.results[j], "ticker").s],
                     sm'.results[j], today',
                     KeptColumns(stocks, Get(sm'.results[j], "ticker").s))]_vars

\* a refresh pass got the record of ticker A with the unknown label and the
\* price 1: the row of A holds the price and no column for the label
C15_Witness ==
    /\ op = "main"
    /\ Len(sm.results) >= 1
    /\ Get(sm.results[1], "ticker").s = TickerA
    /\ DictHas(sm.results[1], "optionable")
    /\ "optionable" \notin DOMAIN stocks[TickerA]
    /\ stocks[TickerA]["price"] = NumV("int", FALSE, 1, 0)

(* C18: a run that finds no ticker stops before it starts: main that exits *)
(* and scrape_all that returns for want of tickers make no request, write  *)
(* no file and leave the database as it is; and main and scrape_all go on  *)
(* to scrape only with a list of tickers that is not empty.                *)
C18_NoTickersNoRun ==
    [][runs' # runs =>
          /\ op' \in {"exit", "no_tickers"} =>
                UNCHANGED <<batchVars, files, stocks, history>>
          /\ op' = "exit" => get_tickers(stocks) = <<>>
          /\ op' = "main" =>
                (get_tickers(stocks) # <<>> /\ smTickers' = get_tickers(stocks))
          /\ op' = "scrape_all" => smTickers' # <<>>]_vars

\* main has exited on an empty database and scrape_all has returned on an
\* empty CSV file: no request was made, no file written, no row stored
C18_Witness ==
    /\ op = "no_tickers"
    /\ runs = 2
    /\ sm.log = <<>>
    /\ files = NoFiles
    /\ stocks = EmptyTable
    /\ history = EmptyTable

(* C16: a column the load layer writes has the same name for the frontend  *)
(* on both backends: its Postgres name, read back through the API table,   *)
(* is the column's own name, and the two tables are inverses of each       *)
(* other, entry for entry.                                                 *)
C16_SameApiKeyOnBothBackends ==
    /\ Len(apiName) = 3 =>
          /\ apiName[3] = apiName[1]
          /\ apiName[2] # apiName[1] =>
                (apiName[2] \in DOMAIN PG_TO_API
                    /\ PG_TO_API[apiName[2]] = apiName[1])
    /\ \A pc \in DOMAIN PG_TO_API :
          PG_TO_API[pc] # pc /\ SQLITE_TO_PG(PG_TO_API[pc]) = pc

\* the key "change" was written to price_change_pct and read as price_change
C16_Witness ==
    /\ apiKey = "change"
    /\ apiName = <<"price_change", "price_change_pct", "price_change">>

\* the texts of the immediate b, span and small elements of the cell that
\* carry text
FragmentTexts(cell) == NonEmptyTexts(BlockTags(cell))

(* C20 (as claimed): _extract_cell_texts returns the texts of the          *)
(* sub-elements, one fragment each, exactly when at least two immediate    *)
(* sub-elements of the cell carry text; in every other case it returns the *)
(* whole flattened text of the cell as one string (nothing for a cell      *)
(* without text).                                                          *)
C20_FragmentsOrWholeText ==
    exTexts # NotExtracted =>
        exTexts = IF Len(FragmentTexts(exCell)) >= 2
                  THEN FragmentTexts(exCell)
                  ELSE IF CellText(exCell) = <<>> THEN <<>>
                  ELSE <<CellText(exCell)>>

(* C27: scrape_multiple puts every ticker it has requested in exactly one *)
(* of its two lists: the lengths of results and affiliates add up to the   *)
(* number of requests made, and to the number of tickers when the call     *)
(* returns, so that the count failed of the JSON file of scrape_all is 0.  *)
C27_EveryTickerInOneList ==
    /\ Len(sm.results) + Len(sm.affiliates) = Len(sm.outcome)
    /\ smPc = "done" =>
          /\ Len(sm.results) + Len(sm.affiliates) = Len(smTickers)
          /\ Artifact(smTickers, sm).failed = 0

\* a call on three tickers has returned one record and two tickers in
\* affiliates, one of them for a request that raised
C27_Witness ==
    /\ smPc = "done"
    /\ Len(smTickers) = 3
    /\ Len(sm.results) = 1
    /\ Len(sm.affiliates) = 2
    /\ \E k \in 1..3 : sm.outcome[k] = "exception"
    /\ \E k \in 1..3 : sm.outcome[k] = "affiliate"

----------------------------------------------------------------------------
(* Properties of the shortlist (SpecShortlist) *)

IsUpdate(resp, action) ==
    /\ resp.action = action
    /\ resp.route = "update"

(* C21: shortlist membership is a toggle.  The flag shortlisted of a       *)
(* response tells whether the ticker is in the shortlist of that response; *)
(* a toggle flips the membership, so that a second toggle of the same      *)
(* ticker right after the first gives back the membership there was        *)
(* before; and an add right after an add of the same ticker, a remove      *)
(* right after a remove, leave the shortlist of the response as it was.    *)
C21_MembershipIsAToggle ==
    /\ (slResp # NoResp /\ slResp.route = "update") =>
          slResp.shortlisted = InList(slResp.ticker, slResp.shortlist)
    /\ IsUpdate(slResp, "toggle") => slResp.shortlisted = ~slResp.was
    /\ (IsUpdate(slResp, "toggle") /\ slPrev # NoResp
          /\ IsUpdate(slPrev, "toggle") /\ slPrev.ticker = slResp.ticker) =>
            InList(slResp.ticker, slResp.shortlist) = slPrev.was
    /\ \A action \in {"add", "remove"} :
          (IsUpdate(slResp, action) /\ slPrev # NoResp
            /\ IsUpdate(slPrev, action) /\ slPrev.ticker = slResp.ticker) =>
              /\ slResp.shortlist = slPrev.shortlist
              /\ slResp.shortlist_detailed = slPrev.shortlist_detailed

\* ticker A was toggled in, then toggled out again
C21_Witness ==
    /\ slPrev # NoResp
    /\ IsUpdate(slPrev, "toggle") /\ slPrev.ticker = TickerA
    /\ ~slPrev.was /\ slPrev.shortlisted
    /\ IsUpdate(slResp, "toggle") /\ slResp.ticker = TickerA
    /\ slResp.was /\ ~slResp.shortlisted
    /\ ~InList(TickerA, slResp.shortlist)

SortedTickers(tickers) ==
    tickers = SelectSeq(TickerOrder, LAMBDA t : InList(t, tickers))

(* C22 (as claimed): on either backend the list of the shortlist that a    *)
(* response carries is in alphabetical order of ticker and holds no ticker *)
(* twice.                                                                  *)
C22_ShortlistSorted ==
    slResp # NoResp => SortedTickers(slResp.shortlist)

----------------------------------------------------------------------------
(* Properties of the commits of a refresh pass (SpecCommit) *)

(* C24: the stocks write and the history write of a record become durable  *)
(* by the same commit; while the pass runs, what is committed is the       *)
(* writes of the records up to the last hundredth one; when it has ended,  *)
(* all of them; and the count returned is the number of records that carry *)
(* a ticker.                                                               *)
C24_CommitsEveryHundred ==
    /\ cmDurable.stocks = cmDurable.history
    /\ cmPc \in {"ticker", "stocks", "history", "count"} =>
          cmDurable.stocks = (cmUpdated \div COMMIT_EVERY) * COMMIT_EVERY
    /\ cmPc = "done" =>
          /\ cmDurable = cmExec
          /\ cmDurable.stocks = cmUpdated
          /\ cmUpdated = cmTickers

\* 150 records written, some without ticker passed over: 100 are committed
C24_Witness ==
    /\ cmPc = "ticker"
    /\ cmUpdated = 150
    /\ cmI > cmTickers
    /\ cmExec = [stocks |-> 150, history |-> 150]
    /\ cmDurable = [stocks |-> 100, history |-> 100]

----------------------------------------------------------------------------
(* Properties of split_multi_value_fields run twice (SpecIdem) *)

DictItems(d) == {d[i] : i \in 1..Len(d)}

(* C25 (as claimed): split_multi_value_fields gives on its own result the  *)
(* same dict again, and every key of the dict given that is not a compound *)
(* label is in the result with the value it had.                           *)
C25_SplitIdempotentAndFraming ==
    /\ (Len(idOut) >= 1 /\ ~idOut[1].raised) =>
          \A i \in 1..Len(idDict) :
              idDict[i][1] \notin CompoundLabels =>
                  /\ DictHas(idOut[1].d, idDict[i][1])
                  /\ DictGet(idOut[1].d, idDict[i][1]) = idDict[i][2]
    /\ Len(idOut) = 2 =>
          /\ ~idOut[2].raised
          /\ DictItems(idOut[2].d) = DictItems(idOut[1].d)

----------------------------------------------------------------------------
(* Properties of the history snapshot (SpecSnapshot) *)

\* the names of metric c in the stocks and in the history table in use
StocksName(c) == IF backend = "postgres" THEN SQLITE_TO_PG(c) ELSE c

HistoryName(c) == IF backend = "postgres" THEN h_cols(c) ELSE c

(* C26 (as claimed): the history row inserted for a record holds, for each *)
(* metric the two tables share, the value that the same upsert wrote to    *)
(* the row of the stocks table, whichever record key carries the metric.   *)
C26_HistoryIsSnapshot ==
    \A t \in DOMAIN stocks :
        /\ <<t, today>> \in DOMAIN history
        /\ \A c \in HistoryColumns :
              Cell(history[<<t, today>>], HistoryName(c)) =
                  Cell(stocks[t], StocksName(c))

----------------------------------------------------------------------------
(* Properties of the refresh pass on rows that exist (Spec) *)

\* the tickers of the records of the batch st
RecordTickers(st) ==
    {Get(st.results[j], "ticker").s : j \in 1..Len(st.results)}

(* C28 (as claimed): a refresh pass leaves the classification of a ticker  *)
(* alone: the row of a ticker that had a row before the pass holds, after  *)
(* the upsert of its record, the industry and the sector it held before.   *)
C28_RefreshKeepsClassification ==
    [][(op' = "main" /\ runs' # runs) =>
          \A t \in DOMAIN stocks \cap RecordTickers(sm') :
              /\ Cell(stocks'[t], "industry") = Cell(stocks[t], "industry")
              /\ Cell(stocks'[t], "sector") = Cell(stocks[t], "sector")]_vars


----------------------------------------------------------------------------
(* Properties of migrate (SpecMigrate) *)

SameNumber(a, b) ==
    /\ IsNum(a) /\ IsNum(b)
    /\ a.neg = b.neg
    /\ a.mant * Pow10(b.scale) = b.mant * Pow10(a.scale)

\* every number of the SQLite row is, under the mapped name, in the row pg
ValuesKept(row, pg, Mapped(_)) ==
    \A c \in DOMAIN row : IsNum(row[c]) => SameNumber(Cell(pg, Mapped(c)), row[c])

(* C30 (as claimed): a migrated stocks or history row holds in Postgres,   *)
(* under the translated column name, the number each numeric column held   *)
(* in SQLite (-0.1394 stays -0.1394); a row whose key is already in        *)
(* Postgres is left as it is, so a second migrate changes nothing.         *)
C30_MigrateKeepsValuesAndRows ==
    [][(op' = "migrate" /\ liteDb' = liteDb) =>
          /\ \A t \in DOMAIN stocks : stocks'[t] = stocks[t]
          /\ \A k \in DOMAIN history : history'[k] = history[k]
          /\ \A t \in DOMAIN liteDb.stocks \ DOMAIN stocks :
                ValuesKept(liteDb.stocks[t], stocks'[t], column_mapping)
          /\ \A k \in DOMAIN liteDb.history \ DOMAIN history :
                ValuesKept(liteDb.history[k], history'[k], hist_mapping)
          /\ op = "migrate" => (stocks' = stocks /\ history' = history)]_vars

\* the part of C30 that holds: rows already in Postgres stay as they are
\* and a second migrate of the same stocks.db changes nothing
MigrateKeepsRows ==
    [][(op' = "migrate" /\ liteDb' = liteDb) =>
          /\ \A t \in DOMAIN stocks : stocks'[t] = stocks[t]
          /\ \A k \in DOMAIN history : history'[k] = history[k]
          /\ op = "migrate" => (stocks' = stocks /\ history' = history)]_vars

====
